---- MODULE Spec2Model ----
(***************************************************************************)
(* Token lifecycle and cost governance of the xc command-line client:      *)
(* lib/api.ts (resolveToken, apiRequest), lib/oauth.ts                     *)
(* (refreshAccessToken), lib/config.ts (account store), lib/budget.ts      *)
(* (checkBudget) and lib/cost.ts (usage ledger).                           *)
(*                                                                         *)
(* Files are modelled by their parsed content: config.json by `config`,    *)
(* budget.json by `budget`, usage.jsonl by `usage`.  Money written in a    *)
(* file is a decimal text; it is held as an integer number of thousandths  *)
(* of a dollar and becomes an IEEE-754 double when the code parses it.     *)
(***************************************************************************)
EXTENDS Integers, Sequences, FiniteSets, TLC

VARIABLES
    now,            \* Date.now(), in ms
    config,         \* parsed config.json: [defaultAccount, accounts]
    budget,         \* parsed budget.json (exists = FALSE: no file)
    usage,          \* usage.jsonl: sequence of entries
    pc,             \* position of the running operation
    argAccount,     \* apiRequest / resolveToken: the account parameter
    argEndpoint,    \* endpoint parameter of the running operation
    account,        \* resolveToken: the local `account` (<<>> before lookup)
    callNow,        \* resolveToken: the value Date.now() had at the expiry test
    token,          \* value returned by resolveToken (Undefined before)
    error,          \* error thrown by the running operation ("none" if none)
    refreshCalls,   \* history: arguments of refreshAccessToken calls of this operation
    refreshResp,    \* history: token-endpoint responses received by this operation
    refreshResult,  \* resolveToken: what the awaited refreshAccessToken settled with
    written,        \* history: account names under which setAccount of this operation wrote
    config0,        \* history: config when the operation started
    usage0,         \* history: usage ledger when the operation started
    checks,         \* history: endpoints passed to checkBudget by this operation
    calls,          \* history: outbound API calls issued by this operation
    stderr,         \* history: budget warnings / prompts written to stderr by this operation
    answer,         \* history: answers typed at the confirm prompt in this operation
    verdict,        \* history: how checkBudget left its synchronous part ("none" before)
    budget0,        \* history: budget.json when the operation started
    stdout,         \* history: lines written to stdout by this operation
    msg,            \* checkBudget: the local `msg` (<<>> before it is built)
    cmd,            \* the `xc budget` subcommand or ledger function that ran last
    argPassword,    \* --password of the running command (Undefined: not given)
    lockedWith,     \* history: password of the last lockBudget, and whether it is in force
    loaded,         \* value returned by the last loadUsageLog()
    spend,          \* value returned by the last computeSpend / computeTodaySpend
    window,         \* windowMs of the last computeSpend (Today for computeTodaySpend)
    savedCfg,       \* history: the argument of the last saveBudget (<<>>: none)
    loadedCfg,      \* value returned by the last loadBudget() (<<>>: none)
    procs,          \* two CLI processes on the same files: position, endpoint and
                    \* timestamp of each, and who wrote which ledger line
    configFile,     \* config.json on disk: "whole", "empty" (truncated by a writer
                    \* that has not written yet) or "corrupt" (overlapping writes)
    saving,         \* setAccount of this operation: the config it loaded and changed
    fetchResp,      \* apiRequest: the answer whose body it is reading (<<>> otherwise)
    other           \* a second process on the same config.json: its operation,
                    \* position and locals

\* the CLI processes that run side by side
Procs == {1, 2}

\* what the budget gate and the budget commands record
gateVars == <<budget0, stdout, msg>>
\* what the budget commands record
lockVars == <<cmd, argPassword, lockedWith>>
\* what the ledger functions return
ledgerVars == <<loaded, spend, window>>
\* what direct calls of saveBudget and loadBudget record
storeVars == <<savedCfg, loadedCfg>>
\* config.json as a file shared with a second process, and the waits of apiRequest
ioVars == <<configFile, saving, fetchResp, other>>

vars == <<now, config, budget, usage, pc, argAccount, argEndpoint, account,
          callNow, token, error, refreshCalls, refreshResp, refreshResult, written, config0,
          usage0, checks, calls, stderr, answer, verdict, budget0, stdout, msg,
          cmd, argPassword, lockedWith, loaded, spend, window, savedCfg,
          loadedCfg, procs, configFile, saving, fetchResp, other>>


(***************************************************************************)
(* Bounds of the model.                                                    *)
(***************************************************************************)
\* number of 1 ms clock steps the ledger model takes
MaxTick == 2
\* number of 1 ms clock steps that pass around an apiRequest
MaxWait == 1
\* largest number of lines in usage.jsonl
MaxLog == 3

(***************************************************************************)
(* Values.                                                                 *)
(***************************************************************************)
\* an absent (undefined) string field
Undefined == "undefined"
\* an absent expiresAt
NoExpiry == -1
\* ms in a day
DAY == 86400000
\* the clock at the start: 100 s after the second local midnight of the model epoch
Now0 == DAY + 100000
\* the refresh margin of resolveToken
MARGIN == 60000
\* expires_in (seconds) of the token endpoint's responses
ExpiresIn == 7200

Names == {"default", "work"}

\* JavaScript falsiness of an optional string
Falsy(s) == s = Undefined \/ s = ""

(***************************************************************************)
(* lib/config.ts: the account store.                                       *)
(***************************************************************************)
\* getAccount(name?): [found, account]
GetAccount(cfg, name) ==
    LET accountName == IF name = Undefined THEN cfg.defaultAccount ELSE name
    IN  IF accountName \in DOMAIN cfg.accounts
        THEN [found |-> TRUE, account |-> <<cfg.accounts[accountName]>>]
        ELSE [found |-> FALSE, account |-> <<>>]

\* setAccount(name, account): the config after load, assign, save
SetAccount(cfg, name, acct) ==
    [cfg EXCEPT !.accounts =
        [n \in (DOMAIN cfg.accounts) \cup {name} |->
            IF n = name THEN acct ELSE cfg.accounts[n]]]

(***************************************************************************)
(* lib/oauth.ts: refreshAccessToken.                                       *)
(***************************************************************************)
\* how fetch(TOKEN_URL) and the reading of the answer's body can turn out: an ok
\* answer with a JSON body, with or without a refresh_token; an ok or not-ok
\* answer whose body is not JSON; an ok or not-ok answer whose body cannot be
\* read to its end (the connection ends first); a rejection (network failure)
TokenResponses ==
    { [rejected |-> FALSE, ok |-> TRUE, json |-> TRUE, unreadable |-> FALSE,
       access_token |-> "at1", refresh_token |-> r] : r \in {Undefined, "rt1"} }
    \cup { [rejected |-> FALSE, ok |-> o, json |-> FALSE, unreadable |-> u,
            access_token |-> Undefined, refresh_token |-> Undefined] :
                o \in BOOLEAN, u \in BOOLEAN }
    \cup { [rejected |-> TRUE, ok |-> FALSE, json |-> FALSE, unreadable |-> FALSE,
            access_token |-> Undefined, refresh_token |-> Undefined] }

\* the OAuthFlowResult built from the body of an ok response; Date.now() is
\* read when the body has been parsed
RefreshAccessToken(params, resp, nowv) ==
    [accessToken  |-> resp.access_token,
     refreshToken |-> IF resp.refresh_token = Undefined
                      THEN params.refreshToken ELSE resp.refresh_token,
     expiresAt    |-> nowv + ExpiresIn * 1000]

\* refreshAccessToken throws e
RefreshThrows(e) == [ok |-> FALSE, error |-> e, value |-> <<>>]

\* what refreshAccessToken settles with: the rejection of its fetch; the
\* rejection of response.text() or response.json() for a body that cannot be
\* read; a throw for a not-ok answer (after response.text()); the SyntaxError
\* of response.json() for a body that is not JSON; the result otherwise
RefreshSettles(params, resp, nowv) ==
    IF resp.rejected THEN RefreshThrows("TypeErrorFetchFailed")
    ELSE IF resp.unreadable THEN RefreshThrows("TypeErrorTerminated")
    ELSE IF ~resp.ok THEN RefreshThrows("TokenRefreshFailed")
    ELSE IF ~resp.json THEN RefreshThrows("SyntaxError")
    ELSE [ok |-> TRUE, error |-> "none",
          value |-> <<RefreshAccessToken(params, resp, nowv)>>]

(***************************************************************************)
(* lib/api.ts: resolveToken.                                               *)
(***************************************************************************)
Thrown(e)   == [kind |-> "throw",   error |-> e,      token |-> Undefined]
Returned(t) == [kind |-> "return",  error |-> "none", token |-> t]
Refreshing  == [kind |-> "refresh", error |-> "none", token |-> Undefined]

\* const expiresAt = auth.expiresAt ?? 0
ExpiresAtOf(auth) == IF auth.expiresAt = NoExpiry THEN 0 ELSE auth.expiresAt

\* Date.now() >= expiresAt - 60_000
NeedsRefresh_nomargin(auth, nowv) == nowv >= ExpiresAtOf(auth)
NeedsRefresh_wide(auth, nowv) == nowv >= ExpiresAtOf(auth) - 2 * MARGIN
NeedsRefresh(auth, nowv) == nowv >= ExpiresAtOf(auth) - MARGIN

\* if (!auth.refreshToken || !auth.clientId) throw
NoRefreshPath_tokenonly(auth) == Falsy(auth.refreshToken)
NoRefreshPath(auth) == Falsy(auth.refreshToken) \/ Falsy(auth.clientId)

\* the bearer branch
BearerBranch_expiry(auth, nowv) ==
    IF Falsy(auth.bearerToken) THEN Thrown("EmptyBearerToken")
    ELSE IF NeedsRefresh(auth, nowv) /\ ~NoRefreshPath(auth) THEN Refreshing
    ELSE Returned(auth.bearerToken)
BearerBranch(auth, nowv) ==
    IF Falsy(auth.bearerToken) THEN Thrown("EmptyBearerToken")
    ELSE Returned(auth.bearerToken)

\* the oauth2 branch up to the await of refreshAccessToken
OAuth2Branch_expiryfirst(auth, nowv) ==
    IF NeedsRefresh(auth, nowv)
    THEN IF NoRefreshPath(auth) THEN Thrown("NoRefreshPath") ELSE Refreshing
    ELSE IF Falsy(auth.accessToken) THEN Thrown("MissingAccessToken")
    ELSE Returned(auth.accessToken)
OAuth2Branch(auth, nowv) ==
    IF Falsy(auth.accessToken) THEN Thrown("MissingAccessToken")
    ELSE IF NeedsRefresh(auth, nowv)
    THEN IF NoRefreshPath(auth) THEN Thrown("NoRefreshPath") ELSE Refreshing
    ELSE Returned(auth.accessToken)

\* resolveToken from its entry to its first await, return or throw
ResolveTokenSync(lookup, nowv) ==
    IF ~lookup.found THEN Thrown("NoAccountConfigured")
    ELSE LET auth == lookup.account[1].auth
         IN  IF auth.type = "bearer" THEN BearerBranch(auth, nowv)
             ELSE IF auth.type = "oauth2" THEN OAuth2Branch(auth, nowv)
             ELSE Thrown("UnknownAuthType")

\* updatedAuth = {...auth, accessToken, refreshToken ?? auth.refreshToken, expiresAt}
UpdatedAuth_spreadlast(auth, result) ==
    [auth EXCEPT !.accessToken  = IF auth.accessToken = Undefined
                                  THEN result.accessToken ELSE auth.accessToken,
                 !.refreshToken = IF auth.refreshToken = Undefined
                                  THEN result.refreshToken ELSE auth.refreshToken,
                 !.expiresAt    = IF auth.expiresAt = NoExpiry
                                  THEN result.expiresAt ELSE auth.expiresAt]
UpdatedAuth(auth, result) ==
    [auth EXCEPT !.accessToken  = result.accessToken,
                 !.refreshToken = IF result.refreshToken = Undefined
                                  THEN auth.refreshToken ELSE result.refreshToken,
                 !.expiresAt    = result.expiresAt]

\* the name resolveToken passes to setAccount: accountName ?? "default"
WriteName(name) == IF name = Undefined THEN "default" ELSE name

(***************************************************************************)
(* IEEE-754 binary64 numbers, as JavaScript computes with them.  Every     *)
(* amount of the model lies in [0.001, 0.5) or is 0, so every double that  *)
(* occurs is a multiple of 2^-62 below 2^61 units; it is held as           *)
(* [hi, lo] with value (hi * 2^30 + lo) * 2^-62 and 0 <= lo < 2^30.        *)
(***************************************************************************)
Limb == 1073741824
Mantissa == 53

Pow2(k) == 2 ^ k

RECURSIVE BitLen(_)
BitLen(n) == IF n = 0 THEN 0 ELSE 1 + BitLen(n \div 2)

DZero == [hi |-> 0, lo |-> 0]

\* carry lo into hi
Norm(h, l) == [hi |-> h + (l \div Limb), lo |-> l % Limb]

DLen(d) == IF d.hi > 0 THEN 30 + BitLen(d.hi) ELSE BitLen(d.lo)

\* round an exact multiple of 2^-62 to 53 significant bits, ties to even
Round53(d) ==
    LET k == DLen(d) - Mantissa
    IN  IF k <= 0 THEN d
        ELSE LET q    == Pow2(k)
                 rem  == d.lo % q
                 half == q \div 2
                 odd  == (d.lo \div q) % 2 = 1
                 up   == rem > half \/ (rem = half /\ odd)
             IN  Norm(d.hi, (d.lo - rem) + (IF up THEN q ELSE 0))

\* a + b of two doubles
DAdd(a, b) == Round53(Norm(a.hi + b.hi, a.lo + b.lo))

\* a - b of two doubles, a >= b
DSub(a, b) ==
    Round53(IF a.lo < b.lo THEN [hi |-> a.hi - b.hi - 1, lo |-> Limb + a.lo - b.lo]
            ELSE [hi |-> a.hi - b.hi, lo |-> a.lo - b.lo])

\* a <= b of two doubles
DLeq(a, b) == a.hi < b.hi \/ (a.hi = b.hi /\ a.lo <= b.lo)

\* 2^20, the chunk of binary digits one division step produces
Chunk == 1048576

\* floor(m/1000 * 2^62) as a double-width number, and what is left below it:
\* three long-division steps of 20 binary digits and one of 2
Quotient62(m) ==
    LET c1 == (m * Chunk) \div 1000
        r1 == (m * Chunk) % 1000
        c2 == (r1 * Chunk) \div 1000
        r2 == (r1 * Chunk) % 1000
        c3 == (r2 * Chunk) \div 1000
        r3 == (r2 * Chunk) % 1000
        c4 == (r3 * 4) \div 1000
        r4 == (r3 * 4) % 1000
    IN  [hi   |-> c1 * 4096 + (c2 \div 256),
         lo   |-> (c2 % 256) * 4194304 + c3 * 4 + c4,
         rest |-> r4]

\* the double a decimal text of m thousandths parses to (a source literal,
\* JSON.parse, parseFloat), for 0 <= m < 500: m/1000 rounded to 53
\* significant bits, ties to even
DecimalToDouble(m) ==
    IF m = 0 THEN DZero
    ELSE LET n    == Quotient62(m)
             k    == DLen(n) - Mantissa
             q    == Pow2(k)
             rem  == n.lo % q
             odd  == (n.lo \div q) % 2 = 1
             up   == IF k = 0
                     THEN 2 * n.rest > 1000 \/ (2 * n.rest = 1000 /\ odd)
                     ELSE rem > q \div 2
                          \/ (rem = q \div 2 /\ (n.rest > 0 \/ odd))
         IN  Norm(n.hi, (n.lo - rem) + (IF up THEN q ELSE 0))

\* the number of fifteen-bit digits of a limb
Half == 32768

\* the integer nearest to d * f, the larger one when two are equally near
\* (f <= 1000): the product is carried through the four half-limbs of d
ScaleRound(d, f) ==
    LET c0 == f * (d.lo % Half)
        c1 == f * (d.lo \div Half) + (c0 \div Half)
        c2 == f * (d.hi % Half) + (c1 \div Half)
        c3 == f * (d.hi \div Half) + (c2 \div Half)
    IN  (c3 \div Pow2(17)) + (IF c3 % Pow2(17) >= Pow2(16) THEN 1 ELSE 0)

\* Number.prototype.toFixed(2): the cents the text shows
ToFixed2(d) == ScaleRound(d, 100)

(***************************************************************************)
(* lib/cost.ts: the cost table and the usage ledger.                       *)
(***************************************************************************)
\* the endpoints the model calls; the last one has no COST_MAP entry
Endpoints == {"posts.create", "posts.searchAll", "users.getMe", "unmapped.endpoint"}

\* COST_MAP, restricted to the model's endpoints, in thousandths of a dollar
COST_MAP == [e \in {"posts.create", "posts.searchAll", "users.getMe"} |->
                IF e = "posts.create" THEN 10
                ELSE IF e = "posts.searchAll" THEN 20 ELSE 5]
DEFAULT_COST == 5

\* METHOD_MAP, restricted to the model's endpoints
METHOD_MAP == [e \in {"posts.create"} |-> "POST"]

\* the decimal literal estimateCost returns for an endpoint
CostMilli(endpoint) ==
    IF endpoint \in DOMAIN COST_MAP THEN COST_MAP[endpoint] ELSE DEFAULT_COST

\* estimateCost(endpoint), a double
EstimateCost(endpoint) == DecimalToDouble(CostMilli(endpoint))

\* inferMethod(endpoint)
InferMethod(endpoint) ==
    IF endpoint \in DOMAIN METHOD_MAP THEN METHOD_MAP[endpoint] ELSE "GET"

\* JSON.stringify of a cost: the decimal text that parses back to the double
JsonNumber(d) ==
    CHOOSE m \in {COST_MAP[e] : e \in DOMAIN COST_MAP} \cup {DEFAULT_COST} :
        DecimalToDouble(m) = d

\* the line logApiCall appends
UsageEntry(endpoint, nowv) ==
    [json          |-> TRUE,
     timestamp     |-> nowv,
     endpoint      |-> endpoint,
     method        |-> InferMethod(endpoint),
     estimatedCost |-> JsonNumber(EstimateCost(endpoint))]

\* logApiCall(endpoint): the ledger after the append
LogApiCall_overwrite(lines, endpoint, nowv) == <<UsageEntry(endpoint, nowv)>>
LogApiCall(lines, endpoint, nowv) == Append(lines, UsageEntry(endpoint, nowv))

\* a line JSON.parse rejects
Malformed ==
    [json |-> FALSE, timestamp |-> 0, endpoint |-> "not-valid-json",
     method |-> Undefined, estimatedCost |-> 0]

\* loadUsageLog(): the lines that parse, in file order
LoadUsageLog_strict(lines) ==
    IF \A i \in 1..Len(lines) : lines[i].json THEN lines ELSE <<>>
LoadUsageLog(lines) == SelectSeq(lines, LAMBDA l : l.json)

\* the window of computeTodaySpend, which takes no windowMs
Today == -1

\* local midnight of the day of nowv (the model's time zone is UTC)
Midnight(nowv) == nowv - (nowv % DAY)

\* the loop of computeTodaySpend / computeSpend from entry i on
RECURSIVE SumSince(_, _, _, _)
SumSince(entries, cutoff, i, total) ==
    IF i > Len(entries) THEN total
    ELSE SumSince(entries, cutoff, i + 1,
                  IF entries[i].timestamp >= cutoff
                  THEN DAdd(total, DecimalToDouble(entries[i].estimatedCost))
                  ELSE total)

\* computeTodaySpend(entries)
ComputeTodaySpend_rolling(entries, nowv) == SumSince(entries, nowv - DAY, 1, DZero)
ComputeTodaySpend(entries, nowv) == SumSince(entries, Midnight(nowv), 1, DZero)

\* HOUR
HOUR == 3600000

\* computeSpend(entries, windowMs)
ComputeSpend_strict(entries, windowMs, nowv) ==
    SumSince(entries, nowv - windowMs + 1, 1, DZero)
ComputeSpend(entries, windowMs, nowv) ==
    SumSince(entries, nowv - windowMs, 1, DZero)

(***************************************************************************)
(* lib/budget.ts: loadBudget and checkBudget.                              *)
(***************************************************************************)
\* an absent daily
NoDaily == -1
Actions == {"block", "warn", "confirm"}

\* budget.json is a JSON object: a function from the keys it has to their
\* values, daily being a decimal text of so many thousandths of a dollar.
\* A BudgetConfig in memory has all four fields, an undefined one being
\* NoDaily or Undefined, and its daily names the double that text parses to.
\* JSON.parse(raw) as BudgetConfig
ParseBudget(file) ==
    [daily        |-> IF "daily" \in DOMAIN file THEN file["daily"] ELSE NoDaily,
     action       |-> IF "action" \in DOMAIN file THEN file["action"] ELSE Undefined,
     passwordHash |-> IF "passwordHash" \in DOMAIN file
                      THEN file["passwordHash"] ELSE Undefined,
     passwordSalt |-> IF "passwordSalt" \in DOMAIN file
                      THEN file["passwordSalt"] ELSE Undefined]

\* loadBudget(): the parsed file, or the default when there is none
LoadBudget(b) ==
    IF b = <<>>
    THEN [daily |-> NoDaily, action |-> "warn",
          passwordHash |-> Undefined, passwordSalt |-> Undefined]
    ELSE ParseBudget(b[1])

\* !budget.daily
DailyUnset(cfg) == cfg.daily = NoDaily \/ DecimalToDouble(cfg.daily) = DZero

\* todaySpend + callCost <= budget.daily (false against an undefined daily)
WithinBudget(cfg, todaySpend, callCost) ==
    /\ cfg.daily # NoDaily
    /\ DLeq(DAdd(todaySpend, callCost), DecimalToDouble(cfg.daily))

\* the local `msg` of checkBudget: the three amounts as toFixed(2) prints them
BudgetMessage_nocost(cfg, todaySpend, callCost) ==
    [daily |-> ToFixed2(DecimalToDouble(cfg.daily)),
     today |-> ToFixed2(DAdd(todaySpend, callCost)),
     cost  |-> 0]
BudgetMessage(cfg, todaySpend, callCost) ==
    [daily |-> ToFixed2(DecimalToDouble(cfg.daily)),
     today |-> ToFixed2(todaySpend),
     cost  |-> ToFixed2(callCost)]

\* checkBudget(endpoint): `msg` when the call does not fit, <<>> otherwise
CheckBudgetMsg(b, lines, endpoint, nowv) ==
    LET cfg        == LoadBudget(b)
        todaySpend == ComputeTodaySpend(LoadUsageLog(lines), nowv)
        callCost   == EstimateCost(endpoint)
    IN  IF DailyUnset(cfg) \/ WithinBudget(cfg, todaySpend, callCost) THEN <<>>
        ELSE <<BudgetMessage(cfg, todaySpend, callCost)>>

\* checkBudget(endpoint) up to its return, throw or prompt
CheckBudgetSync_nodailytest(b, lines, endpoint, nowv) ==
    LET cfg        == LoadBudget(b)
        entries    == LoadUsageLog(lines)
        todaySpend == ComputeTodaySpend(entries, nowv)
        callCost   == EstimateCost(endpoint)
    IN  IF WithinBudget(cfg, todaySpend, callCost) THEN "pass"
        ELSE IF cfg.action = "block" THEN "block"
        ELSE IF cfg.action = "warn" THEN "warn"
        ELSE IF cfg.action = "confirm" THEN "prompt"
        ELSE "pass"
CheckBudgetSync_nowarning(b, lines, endpoint, nowv) ==
    LET cfg        == LoadBudget(b)
        entries    == LoadUsageLog(lines)
        todaySpend == ComputeTodaySpend(entries, nowv)
        callCost   == EstimateCost(endpoint)
    IN  IF DailyUnset(cfg) THEN "pass"
        ELSE IF WithinBudget(cfg, todaySpend, callCost) THEN "pass"
        ELSE IF cfg.action = "block" THEN "block"
        ELSE IF cfg.action = "confirm" THEN "prompt"
        ELSE "pass"
CheckBudgetSync(b, lines, endpoint, nowv) ==
    LET cfg        == LoadBudget(b)
        entries    == LoadUsageLog(lines)
        todaySpend == ComputeTodaySpend(entries, nowv)
        callCost   == EstimateCost(endpoint)
    IN  IF DailyUnset(cfg) THEN "pass"
        ELSE IF WithinBudget(cfg, todaySpend, callCost) THEN "pass"
        ELSE IF cfg.action = "block" THEN "block"
        ELSE IF cfg.action = "warn" THEN "warn"
        ELSE IF cfg.action = "confirm" THEN "prompt"
        ELSE "pass"

\* the decimal texts of the daily limits the model writes
DailyTexts == {5, 15, 30}

\* JSON.stringify of a daily: the decimal text that parses back to the double
JsonDaily(d) == CHOOSE m \in DailyTexts : DecimalToDouble(m) = d

\* JSON.stringify(config, null, 2): a field that is undefined is left out
StringifyBudget_nosalt(cfg) ==
    [k \in {f \in {"daily", "action", "passwordHash"} :
                cfg[f] # (IF f = "daily" THEN NoDaily ELSE Undefined)} |->
        IF k = "daily" THEN JsonDaily(DecimalToDouble(cfg.daily)) ELSE cfg[k]]
StringifyBudget(cfg) ==
    [k \in {f \in DOMAIN cfg :
                cfg[f] # (IF f = "daily" THEN NoDaily ELSE Undefined)} |->
        IF k = "daily" THEN JsonDaily(DecimalToDouble(cfg.daily)) ELSE cfg[k]]

\* saveBudget(config): the file written
SaveBudget(cfg) == <<StringifyBudget(cfg)>>

\* resetBudget(): no file
ResetBudget_keeplock(b) ==
    IF ~Falsy(LoadBudget(b).passwordHash)
    THEN SaveBudget([LoadBudget(b) EXCEPT !.daily = NoDaily, !.action = "warn"])
    ELSE <<>>
ResetBudget(b) == <<>>

\* hashPassword(password, salt): scrypt, taken to be free of collisions
HashPassword(password, salt) == "scrypt(" \o password \o "," \o salt \o ")"

\* isLocked()
IsLocked(b) ==
    ~Falsy(LoadBudget(b).passwordHash) /\ ~Falsy(LoadBudget(b).passwordSalt)

\* verifyPassword(password)
VerifyPassword_any(b, password) == TRUE
VerifyPassword(b, password) ==
    LET cfg == LoadBudget(b)
    IN  IF Falsy(cfg.passwordHash) \/ Falsy(cfg.passwordSalt) THEN TRUE
        ELSE HashPassword(password, cfg.passwordSalt) = cfg.passwordHash

\* lockBudget(password), salt being what randomBytes(32) returned
LockBudget_fresh(b, password, salt) ==
    SaveBudget([daily |-> NoDaily, action |-> "warn", passwordSalt |-> salt,
                passwordHash |-> HashPassword(password, salt)])
LockBudget_nosalt(b, password, salt) ==
    SaveBudget([LoadBudget(b) EXCEPT !.passwordHash = HashPassword(password, salt)])
LockBudget(b, password, salt) ==
    SaveBudget([LoadBudget(b) EXCEPT !.passwordSalt = salt,
                                     !.passwordHash = HashPassword(password, salt)])

\* unlockBudget()
UnlockBudget_hashonly(b) ==
    SaveBudget([LoadBudget(b) EXCEPT !.passwordHash = Undefined])
UnlockBudget(b) ==
    SaveBudget([LoadBudget(b) EXCEPT !.passwordHash = Undefined,
                                     !.passwordSalt = Undefined])

\* answer.toLowerCase() of the answers the model types
ToLowerCase(a) ==
    IF a = "Y" THEN "y" ELSE IF a = "N" THEN "n" ELSE IF a = "YES" THEN "yes" ELSE a
Answers == {"y", "Y", "n", "N", "", "yes", "YES", " y", "y "}

\* confirmPrompt: resolve(answer.toLowerCase() === "y")
ConfirmPrompt_prefix(a) == ToLowerCase(a) \in {"y", "yes", "y "}
ConfirmPrompt(a) == ToLowerCase(a) = "y"

(***************************************************************************)
(* lib/api.ts: resolveToken after the await, and apiRequest.               *)
(***************************************************************************)
\* resolveToken from the settlement of refreshAccessToken to its call of
\* setAccount, or to its throw
AfterRefresh_swallow(name, acct, settled) ==
    IF settled.ok
    THEN LET r == settled.value[1]
         IN  [kind |-> "persist", error |-> "none", token |-> r.accessToken,
              name |-> WriteName(name),
              account |-> <<[acct EXCEPT !.auth = UpdatedAuth(acct.auth, r)]>>]
    ELSE [kind |-> "return", error |-> "none", token |-> acct.auth.accessToken,
          name |-> WriteName(name), account |-> <<>>]
AfterRefresh(name, acct, settled) ==
    IF settled.ok
    THEN LET r == settled.value[1]
         IN  [kind |-> "persist", error |-> "none", token |-> r.accessToken,
              name |-> WriteName(name),
              account |-> <<[acct EXCEPT !.auth = UpdatedAuth(acct.auth, r)]>>]
    ELSE [kind |-> "throw", error |-> settled.error, token |-> Undefined,
          name |-> WriteName(name), account |-> <<>>]

(***************************************************************************)
(* config.json as a file.  readFileSync reads what is on disk;             *)
(* writeFileSync opens the file with O_TRUNC, which empties it, and then   *)
(* writes at offset 0.  Within one process both run without interruption;  *)
(* a second process can read or write between the two.                     *)
(***************************************************************************)
\* loadConfig(): JSON.parse throws on an empty or garbled file
ReadConfig ==
    IF configFile = "whole" THEN [ok |-> TRUE, cfg |-> <<config>>]
    ELSE [ok |-> FALSE, cfg |-> <<>>]

\* writeFileSync, first half: the file is opened and truncated
TruncateConfig ==
    /\ configFile' = "empty"
    /\ config' = config

\* writeFileSync, second half: the text is written at offset 0.  On a file
\* that another writer has filled since the truncation the result is the new
\* text, or the new text followed by the rest of a longer old one
WriteConfig(cfg) ==
    \/ /\ config' = cfg
       /\ configFile' = "whole"
    \/ /\ configFile # "empty"
       /\ config' = config
       /\ configFile' = "corrupt"

\* the REST paths the model requests
ApiPaths == {"/users/me"}

Idle == pc \in {"idle", "done", "failed"}

\* console.error("Refreshing access token...")
RefreshingLine == "Refreshing access token..."

\* resolveToken from its entry, with what loadConfig finds on disk
ResolveTokenEntry(name, nowv) ==
    IF ReadConfig.ok THEN ResolveTokenSync(GetAccount(config, name), nowv)
    ELSE Thrown("SyntaxError")

\* getAccount(name) with what loadConfig finds on disk
LookUp(name) ==
    IF ReadConfig.ok THEN GetAccount(config, name)
    ELSE [found |-> FALSE, account |-> <<>>]

\* apiRequest({endpoint, account}): entry, and resolveToken up to its first
\* await, return or throw; apiRequest itself is then at `await resolveToken`
ApiRequest(name, endpoint) ==
    /\ Idle
    /\ LET lookup == LookUp(name)
           r      == ResolveTokenEntry(name, now)
       IN  /\ account' = lookup.account
           /\ token' = r.token
           /\ error' = r.error
           /\ refreshCalls' = IF r.kind = "refresh"
                              THEN <<[clientId     |-> lookup.account[1].auth.clientId,
                                      refreshToken |-> lookup.account[1].auth.refreshToken]>>
                              ELSE <<>>
           /\ stderr' = IF r.kind = "refresh" THEN <<RefreshingLine>> ELSE <<>>
           /\ pc' = IF r.kind = "throw" THEN "failed"
                    ELSE IF r.kind = "refresh" THEN "awaitRefresh" ELSE "resolved"
    /\ argAccount' = name
    /\ argEndpoint' = endpoint
    /\ callNow' = now
    /\ config0' = config
    /\ usage0' = usage
    /\ refreshResp' = <<>>
    /\ refreshResult' = <<>>
    /\ written' = <<>>
    /\ checks' = <<>>
    /\ calls' = <<>>
    /\ answer' = <<>>
    /\ verdict' = "none"
    /\ saving' = <<>>
    /\ fetchResp' = <<>>
    /\ UNCHANGED <<now, config, budget, usage, configFile, other>>
    /\ UNCHANGED <<gateVars, lockVars, ledgerVars, storeVars, procs>>

\* fetch(TOKEN_URL) of the pending refreshAccessToken settles: a rejection
\* settles refreshAccessToken, an answer makes it read the body
\* (response.json(), response.text())
RefreshRespond(resp) ==
    /\ pc = "awaitRefresh"
    /\ refreshResp' = Append(refreshResp, resp)
    /\ IF resp.rejected
       THEN /\ pc' = "refreshed"
            /\ refreshResult' = <<RefreshSettles(refreshCalls[Len(refreshCalls)],
                                                 resp, now)>>
       ELSE /\ pc' = "refreshBody"
            /\ UNCHANGED refreshResult
    /\ UNCHANGED <<now, config, budget, usage, argAccount, argEndpoint, account,
                   callNow, token, error, refreshCalls, written, config0,
                   usage0, checks, calls, stderr, answer, verdict>>
    /\ UNCHANGED <<configFile, saving, fetchResp, other>>
    /\ UNCHANGED <<gateVars, lockVars, ledgerVars, storeVars, procs>>

\* the body is read: refreshAccessToken returns its result or throws
RefreshSettle ==
    /\ pc = "refreshBody"
    /\ pc' = "refreshed"
    /\ refreshResult' = <<RefreshSettles(refreshCalls[Len(refreshCalls)],
                                         refreshResp[Len(refreshResp)], now)>>
    /\ UNCHANGED <<now, config, budget, usage, argAccount, argEndpoint, account,
                   callNow, token, error, refreshCalls, refreshResp, written,
                   config0, usage0, checks, calls, stderr, answer, verdict>>
    /\ UNCHANGED <<configFile, saving, fetchResp, other>>
    /\ UNCHANGED <<gateVars, lockVars, ledgerVars, storeVars, procs>>

\* resolveToken resumes after its await: it throws, or builds the updated
\* account and enters setAccount, whose loadConfig reads config.json
RefreshResume ==
    /\ pc = "refreshed"
    /\ LET o == AfterRefresh(argAccount, account[1], refreshResult[1])
           r == ReadConfig
       IN  /\ pc' = IF o.kind = "throw" THEN "failed"
                    ELSE IF o.kind = "return" THEN "resolved"
                    ELSE IF r.ok THEN "persistLoaded" ELSE "failed"
           /\ error' = IF o.kind = "throw" THEN o.error
                       ELSE IF o.kind = "persist" /\ ~r.ok THEN "SyntaxError"
                       ELSE error
           /\ token' = IF o.kind = "return" THEN o.token ELSE token
           /\ saving' = IF o.kind = "persist" /\ r.ok
                        THEN <<SetAccount(config, o.name, o.account[1])>>
                        ELSE saving
    /\ UNCHANGED <<now, config, budget, usage, argAccount, argEndpoint, account,
                   callNow, refreshCalls, refreshResp, refreshResult, written,
                   config0, usage0, checks, calls, stderr, answer, verdict>>
    /\ UNCHANGED <<configFile, fetchResp, other>>
    /\ UNCHANGED <<gateVars, lockVars, ledgerVars, storeVars, procs>>

\* saveConfig of setAccount: writeFileSync truncates config.json
PersistTruncate ==
    /\ pc = "persistLoaded"
    /\ pc' = "persistTruncated"
    /\ TruncateConfig
    /\ UNCHANGED <<now, budget, usage, argAccount, argEndpoint, account, callNow,
                   token, error, refreshCalls, refreshResp, refreshResult, written,
                   config0, usage0, checks, calls, stderr, answer, verdict>>
    /\ UNCHANGED <<saving, fetchResp, other>>
    /\ UNCHANGED <<gateVars, lockVars, ledgerVars, storeVars, procs>>

\* saveConfig of setAccount: writeFileSync writes; resolveToken returns the
\* new access token
PersistWrite ==
    /\ pc = "persistTruncated"
    /\ pc' = "resolved"
    /\ WriteConfig(saving[1])
    /\ LET o == AfterRefresh(argAccount, account[1], refreshResult[1])
       IN  /\ written' = Append(written, o.name)
           /\ token' = o.token
    /\ UNCHANGED <<now, budget, usage, argAccount, argEndpoint, account, callNow,
                   error, refreshCalls, refreshResp, refreshResult, config0,
                   usage0, checks, calls, stderr, answer, verdict>>
    /\ UNCHANGED <<saving, fetchResp, other>>
    /\ UNCHANGED <<gateVars, lockVars, ledgerVars, storeVars, procs>>

\* apiRequest resumes after `await resolveToken` and issues the fetch
IssueFetch ==
    /\ pc = "resolved"
    /\ pc' = "awaitFetch"
    /\ calls' = Append(calls, argEndpoint)
    /\ UNCHANGED <<now, config, budget, usage, argAccount, argEndpoint, account,
                   callNow, token, error, refreshCalls, refreshResp, refreshResult,
                   written, config0, usage0, checks, stderr, answer, verdict>>
    /\ UNCHANGED <<configFile, saving, fetchResp, other>>
    /\ UNCHANGED <<gateVars, lockVars, ledgerVars, storeVars, procs>>

\* how the pending fetch can settle: an answer, ok or not, whose body is JSON,
\* other text, null (204, 304) or cannot be read to its end ("error"), or a
\* rejection (network failure)
FetchOutcomes ==
    { [rejected |-> FALSE, ok |-> o, body |-> b] :
          o \in BOOLEAN, b \in {"json", "text", "null", "error"} }
    \cup { [rejected |-> TRUE, ok |-> FALSE, body |-> "null"] }

\* what apiRequest ends with for an outcome of its fetch: response.json() of an
\* ok answer, which rejects for a body that cannot be read or is not JSON; for
\* a not-ok answer response.json().catch(() => response.text()), whose text()
\* finds a body already consumed unless the body is null, then throw XApiError
FetchError(outcome) ==
    IF outcome.rejected THEN "TypeErrorFetchFailed"
    ELSE IF outcome.ok
    THEN (IF outcome.body = "json" THEN "none"
          ELSE IF outcome.body = "error" THEN "TypeErrorTerminated"
          ELSE "SyntaxError")
    ELSE IF outcome.body \in {"text", "error"} THEN "TypeErrorBodyUnusable"
    ELSE "XApiError"

\* the pending fetch of apiRequest settles: a rejection ends apiRequest, an
\* answer makes it read the body
FetchRespond(outcome) ==
    /\ pc = "awaitFetch"
    /\ IF outcome.rejected
       THEN pc' = "failed" /\ error' = FetchError(outcome) /\ UNCHANGED fetchResp
       ELSE pc' = "fetchBody" /\ fetchResp' = <<outcome>> /\ UNCHANGED error
    /\ UNCHANGED <<now, config, budget, usage, argAccount, argEndpoint, account,
                   callNow, token, refreshCalls, refreshResp, refreshResult, written,
                   config0, usage0, checks, calls, stderr, answer, verdict>>
    /\ UNCHANGED <<configFile, saving, other>>
    /\ UNCHANGED <<gateVars, lockVars, ledgerVars, storeVars, procs>>

\* the body of the answer is read: apiRequest returns or throws
FetchSettle ==
    /\ pc = "fetchBody"
    /\ error' = FetchError(fetchResp[1])
    /\ pc' = IF error' = "none" THEN "done" ELSE "failed"
    /\ fetchResp' = <<>>
    /\ UNCHANGED <<now, config, budget, usage, argAccount, argEndpoint, account,
                   callNow, token, refreshCalls, refreshResp, refreshResult, written,
                   config0, usage0, checks, calls, stderr, answer, verdict>>
    /\ UNCHANGED <<configFile, saving, other>>
    /\ UNCHANGED <<gateVars, lockVars, ledgerVars, storeVars, procs>>

\* one millisecond passes
Tick ==
    /\ now < Now0 + MaxWait
    /\ now' = now + 1
    /\ UNCHANGED <<config, budget, usage, pc, argAccount, argEndpoint, account,
                   callNow, token, error, refreshCalls, refreshResp, refreshResult, written,
                   config0, usage0, checks, calls, stderr, answer, verdict>>
    /\ UNCHANGED <<gateVars, lockVars, ledgerVars, storeVars, procs, ioVars>>

(***************************************************************************)
(* A second process on the same config.json, which runs setDefaultAccount  *)
(* (lib/config.ts) or resolveAuthenticatedUserId (lib/users.ts) while the  *)
(* apiRequest above is under way.  A callback of the same process is the   *)
(* case where its file operations follow each other without a step of      *)
(* apiRequest in between.                                                  *)
(***************************************************************************)
\* the /users/me answer that is cached
UsersMe == [id |-> "u1", username |-> "alice"]

\* stored = config.accounts[name]; stored.userId = id; stored.username = username
CacheUserId(cfg, name, data) ==
    LET n == IF name = Undefined THEN cfg.defaultAccount ELSE name
    IN  IF n \in DOMAIN cfg.accounts
        THEN [cfg EXCEPT !.accounts[n].userId = data.id,
                         !.accounts[n].username = data.username]
        ELSE cfg

\* the second process between two operations
OtherIdle ==
    [pc |-> "idle", op |-> "none", name |-> Undefined, account |-> <<>>,
     auth |-> <<>>, resp |-> <<>>, settled |-> <<>>, fetched |-> <<>>,
     cfg |-> <<>>, next |-> "idle", token |-> Undefined,
     returned |-> Undefined, error |-> "none"]

\* its operation has returned ret ("done") or thrown e ("failed")
OtherEnds(pcv, e, ret) ==
    [OtherIdle EXCEPT !.pc = pcv, !.error = e, !.returned = ret]

\* the second process runs one command and exits
OtherFree == other.pc = "idle"

\* what the steps of the second process leave alone
otherFrame == <<now, budget, usage, pc, argAccount, argEndpoint, account, callNow,
                token, error, refreshCalls, refreshResp, refreshResult, written,
                config0, usage0, checks, calls, stderr, answer, verdict, saving,
                fetchResp, gateVars, lockVars, ledgerVars, storeVars, procs>>

\* setDefaultAccount(name): loadConfig, config.defaultAccount = name
SetDefaultAccount(name) ==
    /\ OtherFree
    /\ other' = IF ReadConfig.ok
                THEN [OtherIdle EXCEPT !.pc = "loaded", !.op = "setDefaultAccount",
                                       !.name = name, !.next = "done",
                                       !.cfg = <<[config EXCEPT !.defaultAccount = name]>>]
                ELSE OtherEnds("failed", "SyntaxError", Undefined)
    /\ UNCHANGED <<config, configFile, otherFrame>>

\* saveConfig of the second process: writeFileSync truncates config.json
OtherTruncate ==
    /\ other.pc = "loaded"
    /\ other' = [other EXCEPT !.pc = "truncated"]
    /\ TruncateConfig
    /\ UNCHANGED otherFrame

\* saveConfig of the second process: writeFileSync writes, and the function
\* that saved goes on or returns
OtherWrite ==
    /\ other.pc = "truncated"
    /\ WriteConfig(other.cfg[1])
    /\ other' = IF other.next = "done"
                THEN OtherEnds("done", "none", other.returned)
                ELSE [other EXCEPT !.pc = other.next, !.cfg = <<>>]
    /\ UNCHANGED otherFrame

\* resolveAuthenticatedUserId(name): getAccount, and the return of a cached id
ResolveAuthenticatedUserId(name) ==
    /\ OtherFree
    /\ LET lookup == LookUp(name)
       IN  other' =
             IF ~ReadConfig.ok THEN OtherEnds("failed", "SyntaxError", Undefined)
             ELSE IF lookup.found /\ ~Falsy(lookup.account[1].userId)
             THEN OtherEnds("done", "none", lookup.account[1].userId)
             ELSE [OtherIdle EXCEPT !.pc = "lookedUp", !.name = name,
                                    !.op = "resolveAuthenticatedUserId",
                                    !.account = lookup.account]
    /\ UNCHANGED <<config, configFile, otherFrame>>

\* its apiRequest: resolveToken up to its first await, return or throw
OtherResolveToken ==
    /\ other.pc = "lookedUp"
    /\ LET r == ResolveTokenEntry(other.name, now)
       IN  other' =
             IF r.kind = "throw" THEN OtherEnds("failed", r.error, Undefined)
             ELSE IF r.kind = "return"
             THEN [other EXCEPT !.pc = "resolved", !.token = r.token]
             ELSE [other EXCEPT !.pc = "awaitRefresh",
                                !.auth = LookUp(other.name).account]
    /\ UNCHANGED <<config, configFile, otherFrame>>

\* the arguments of its refreshAccessToken
OtherParams ==
    [clientId     |-> other.auth[1].auth.clientId,
     refreshToken |-> other.auth[1].auth.refreshToken]

\* fetch(TOKEN_URL) of its refreshAccessToken settles
OtherRefreshRespond(resp) ==
    /\ other.pc = "awaitRefresh"
    /\ other' = IF resp.rejected
                THEN [other EXCEPT !.pc = "refreshed",
                                   !.settled = <<RefreshSettles(OtherParams, resp, now)>>]
                ELSE [other EXCEPT !.pc = "refreshBody", !.resp = <<resp>>]
    /\ UNCHANGED <<config, configFile, otherFrame>>

\* the body is read: its refreshAccessToken returns or throws
OtherRefreshSettle ==
    /\ other.pc = "refreshBody"
    /\ other' = [other EXCEPT !.pc = "refreshed",
                              !.settled = <<RefreshSettles(OtherParams, other.resp[1], now)>>]
    /\ UNCHANGED <<config, configFile, otherFrame>>

\* its resolveToken resumes: throw, or setAccount up to its loadConfig
OtherRefreshResume ==
    /\ other.pc = "refreshed"
    /\ LET o == AfterRefresh(other.name, other.auth[1], other.settled[1])
       IN  other' =
             IF o.kind = "throw" THEN OtherEnds("failed", o.error, Undefined)
             ELSE IF o.kind = "return"
             THEN [other EXCEPT !.pc = "resolved", !.token = o.token]
             ELSE IF ~ReadConfig.ok THEN OtherEnds("failed", "SyntaxError", Undefined)
             ELSE [other EXCEPT !.pc = "loaded", !.next = "resolved",
                                !.token = o.token,
                                !.cfg = <<SetAccount(config, o.name, o.account[1])>>]
    /\ UNCHANGED <<config, configFile, otherFrame>>

\* its apiRequest issues the fetch of /users/me
OtherIssueFetch ==
    /\ other.pc = "resolved"
    /\ other' = [other EXCEPT !.pc = "awaitFetch"]
    /\ UNCHANGED <<config, configFile, otherFrame>>

\* that fetch settles
OtherFetchRespond(outcome) ==
    /\ other.pc = "awaitFetch"
    /\ other' = IF outcome.rejected
                THEN OtherEnds("failed", FetchError(outcome), Undefined)
                ELSE [other EXCEPT !.pc = "fetchBody", !.fetched = <<outcome>>]
    /\ UNCHANGED <<config, configFile, otherFrame>>

\* the body is read: its apiRequest returns result.data or throws
OtherFetchSettle ==
    /\ other.pc = "fetchBody"
    /\ other' = IF FetchError(other.fetched[1]) = "none"
                THEN [other EXCEPT !.pc = "answered"]
                ELSE OtherEnds("failed", FetchError(other.fetched[1]), Undefined)
    /\ UNCHANGED <<config, configFile, otherFrame>>

\* resolveAuthenticatedUserId resumes: if (account) { loadConfig; stored =
\* config.accounts[name]; if (stored) {...; saveConfig} }; return result.data.id
UserIdCached ==
    /\ other.pc = "answered"
    /\ other' =
         IF other.account = <<>> THEN OtherEnds("done", "none", UsersMe.id)
         ELSE IF ~ReadConfig.ok THEN OtherEnds("failed", "SyntaxError", Undefined)
         ELSE IF ~LookUp(other.name).found
         THEN OtherEnds("done", "none", UsersMe.id)
         ELSE [other EXCEPT !.pc = "loaded", !.next = "done",
                            !.returned = UsersMe.id,
                            !.cfg = <<CacheUserId(config, other.name, UsersMe)>>]
    /\ UNCHANGED <<config, configFile, otherFrame>>

(***************************************************************************)
(* The tracked SDK client of getClient: a method invocation checks the     *)
(* budget, calls the SDK method and logs the call.                         *)
(***************************************************************************)
\* a tracked client that calls the SDK method without waiting for the verdict
\* of checkBudget
ProxyInvoke_nocheck(endpoint) ==
    /\ Idle
    /\ Len(usage) < MaxLog
    /\ LET v == "pass"
       IN  /\ verdict' = v
           /\ stderr' = IF v = "warn" THEN <<"Warning: Daily budget exceeded">>
                        ELSE IF v = "prompt"
                        THEN <<"Daily budget exceeded. Continue? [y/N] ">>
                        ELSE <<>>
           /\ error' = IF v = "block" THEN "BudgetExceeded" ELSE "none"
           /\ pc' = IF v = "block" THEN "failed"
                    ELSE IF v = "prompt" THEN "awaitConfirm" ELSE "awaitCall"
           /\ calls' = IF v \in {"pass", "warn"} THEN <<endpoint>> ELSE <<>>
    /\ checks' = <<endpoint>>
    /\ argEndpoint' = endpoint
    /\ callNow' = now
    /\ config0' = config
    /\ usage0' = usage
    /\ answer' = <<>>
    /\ argAccount' = Undefined
    /\ account' = <<>>
    /\ token' = Undefined
    /\ refreshCalls' = <<>>
    /\ refreshResp' = <<>>
    /\ refreshResult' = <<>>
    /\ written' = <<>>
    /\ budget0' = budget
    /\ stdout' = <<>>
    /\ msg' = CheckBudgetMsg(budget, usage, endpoint, now)
    /\ UNCHANGED <<now, config, budget, usage, lockVars, ledgerVars, storeVars, procs, ioVars>>

\* client.<namespace>.<method>(...): checkBudget up to its return, throw or prompt
ProxyInvoke(endpoint) ==
    /\ Idle
    /\ Len(usage) < MaxLog
    /\ LET v == CheckBudgetSync(budget, usage, endpoint, now)
       IN  /\ verdict' = v
           /\ stderr' = IF v = "warn" THEN <<"Warning: Daily budget exceeded">>
                        ELSE IF v = "prompt"
                        THEN <<"Daily budget exceeded. Continue? [y/N] ">>
                        ELSE <<>>
           /\ error' = IF v = "block" THEN "BudgetExceeded" ELSE "none"
           /\ pc' = IF v = "block" THEN "failed"
                    ELSE IF v = "prompt" THEN "awaitConfirm" ELSE "awaitCall"
           /\ calls' = IF v \in {"pass", "warn"} THEN <<endpoint>> ELSE <<>>
    /\ checks' = <<endpoint>>
    /\ argEndpoint' = endpoint
    /\ callNow' = now
    /\ config0' = config
    /\ usage0' = usage
    /\ answer' = <<>>
    /\ argAccount' = Undefined
    /\ account' = <<>>
    /\ token' = Undefined
    /\ refreshCalls' = <<>>
    /\ refreshResp' = <<>>
    /\ refreshResult' = <<>>
    /\ written' = <<>>
    /\ budget0' = budget
    /\ stdout' = <<>>
    /\ msg' = CheckBudgetMsg(budget, usage, endpoint, now)
    /\ UNCHANGED <<now, config, budget, usage, lockVars, ledgerVars, storeVars, procs, ioVars>>

\* the user answers the confirm prompt of checkBudget
ConfirmAnswer(a) ==
    /\ pc = "awaitConfirm"
    /\ answer' = Append(answer, a)
    /\ IF ConfirmPrompt(a)
       THEN pc' = "awaitCall" /\ error' = "none" /\ calls' = Append(calls, argEndpoint)
       ELSE pc' = "failed" /\ error' = "CancelledByUser" /\ calls' = calls
    /\ UNCHANGED <<now, config, budget, usage, argAccount, argEndpoint, account,
                   callNow, token, refreshCalls, refreshResp, refreshResult, written, config0,
                   usage0, checks, stderr, verdict>>
    /\ UNCHANGED <<gateVars, lockVars, ledgerVars, storeVars, procs, ioVars>>

\* the SDK method settles; a fulfilled call is logged
CallRespond(ok) ==
    /\ pc = "awaitCall"
    /\ IF ok
       THEN pc' = "done" /\ error' = "none"
            /\ usage' = LogApiCall(usage, argEndpoint, now)
       ELSE pc' = "failed" /\ error' = "SdkError" /\ usage' = usage
    /\ UNCHANGED <<now, config, budget, argAccount, argEndpoint, account,
                   callNow, token, refreshCalls, refreshResp, refreshResult, written, config0,
                   usage0, checks, calls, stderr, answer, verdict>>
    /\ UNCHANGED <<gateVars, lockVars, ledgerVars, storeVars, procs, ioVars>>

(***************************************************************************)
(* Initial states.                                                         *)
(***************************************************************************)
Expiries == {NoExpiry, Now0 - 1000, Now0 + MARGIN - 1, Now0 + MARGIN,
             Now0 + MARGIN + 1, Now0 + 10 * MARGIN}

OAuth2Creds ==
    { [type |-> "oauth2", accessToken |-> a, refreshToken |-> r, expiresAt |-> e,
       bearerToken |-> Undefined, clientId |-> c] :
          a \in {Undefined, "at0"}, r \in {Undefined, "rt0"},
          c \in {Undefined, "cid0"}, e \in Expiries }

BearerCreds ==
    { [type |-> "bearer", accessToken |-> Undefined, refreshToken |-> x[1],
       expiresAt |-> x[2], bearerToken |-> b, clientId |-> x[3]] :
          b \in {Undefined, "", "bt0"},
          x \in {<<Undefined, NoExpiry, Undefined>>, <<"rt0", 0, "cid0">>} }

OtherCreds ==
    { [type |-> "apikey", accessToken |-> "at0", refreshToken |-> Undefined,
       expiresAt |-> NoExpiry, bearerToken |-> "bt0", clientId |-> Undefined] }

Creds == OAuth2Creds \cup BearerCreds \cup OtherCreds

\* the credential of the second account of a configuration
SecondAuth ==
    [type |-> "oauth2", accessToken |-> "at9", refreshToken |-> "rt9",
     expiresAt |-> Now0 + 10 * MARGIN, bearerToken |-> Undefined, clientId |-> "cid9"]

AccountOf(n, auth) ==
    [name |-> n, auth |-> auth, userId |-> Undefined, username |-> Undefined]

InitConfigs ==
    { [defaultAccount |-> d,
       accounts |-> [n \in D[2] |-> IF n = D[1] THEN AccountOf(n, c)
                                    ELSE AccountOf(n, SecondAuth)]] :
          d \in Names, c \in Creds,
          D \in {<<p, {p}>> : p \in Names} \cup {<<p, Names>> : p \in Names} }

Dailies == {15, 30}

\* the file saveBudget({daily: d, action: a}) writes
BudgetOf(d, a) ==
    SaveBudget([daily |-> d, action |-> a,
                passwordHash |-> Undefined, passwordSalt |-> Undefined])

InitBudgets == {<<>>} \cup {BudgetOf(d, a) : d \in Dailies \cup {NoDaily}, a \in Actions}

InitHistory ==
    /\ pc = "idle"
    /\ argAccount = Undefined
    /\ argEndpoint = Undefined
    /\ account = <<>>
    /\ callNow = Now0
    /\ token = Undefined
    /\ error = "none"
    /\ refreshCalls = <<>>
    /\ refreshResp = <<>>
    /\ refreshResult = <<>>
    /\ configFile = "whole"
    /\ saving = <<>>
    /\ fetchResp = <<>>
    /\ other = OtherIdle
    /\ written = <<>>
    /\ config0 = config
    /\ usage0 = usage
    /\ checks = <<>>
    /\ calls = <<>>
    /\ stderr = <<>>
    /\ answer = <<>>
    /\ verdict = "none"
    /\ budget0 = budget
    /\ stdout = <<>>
    /\ msg = <<>>
    /\ cmd = "none"
    /\ argPassword = Undefined
    /\ lockedWith = [password |-> Undefined, inForce |-> FALSE]
    /\ loaded = <<>>
    /\ spend = DZero
    /\ window = Today
    /\ savedCfg = <<>>
    /\ loadedCfg = <<>>
    /\ procs = [pc       |-> [p \in Procs |-> "idle"],
                endpoint |-> [p \in Procs |-> Undefined],
                at       |-> [p \in Procs |-> 0],
                logged   |-> [p \in Procs |-> <<>>],
                writers  |-> <<>>]

\* the credential resolver: any stored configuration, a block budget already spent
InitAuth ==
    /\ now = Now0
    /\ config \in InitConfigs
    /\ budget = BudgetOf(5, "block")
    /\ usage = <<UsageEntry("posts.create", Now0 - 1000)>>
    /\ InitHistory

NextAuth ==
    \/ \E name \in Names \cup {Undefined}, endpoint \in ApiPaths :
          ApiRequest(name, endpoint)
    \/ \E resp \in TokenResponses : RefreshRespond(resp)
    \/ RefreshSettle
    \/ RefreshResume
    \/ PersistTruncate
    \/ PersistWrite
    \/ IssueFetch
    \/ \E outcome \in FetchOutcomes : FetchRespond(outcome)
    \/ FetchSettle
    \/ \E name \in Names : SetDefaultAccount(name)
    \/ OtherTruncate
    \/ OtherWrite
    \/ Tick

SpecAuth == InitAuth /\ [][NextAuth]_vars

\* the budget gate: any budget file, a ledger that is empty or holds an
\* entry of the last millisecond of yesterday
InitBudget ==
    /\ now = Now0
    /\ config = [defaultAccount |-> "default",
                 accounts |-> [n \in {"default"} |->
                     AccountOf(n, [SecondAuth EXCEPT !.type = "bearer",
                                                     !.bearerToken = "bt0"])]]
    /\ budget \in InitBudgets
    /\ usage \in {<<>>, <<UsageEntry("posts.searchAll", Midnight(Now0) - 1)>>}
    /\ InitHistory

NextBudget ==
    \/ \E endpoint \in Endpoints : ProxyInvoke(endpoint)
    \/ \E a \in Answers : ConfirmAnswer(a)
    \/ \E ok \in BOOLEAN : CallRespond(ok)

SpecBudget == InitBudget /\ [][NextBudget]_vars

\* budget.json written by hand with daily and without action
HandWritten == {<<[k \in {"daily"} |-> d]>> : d \in Dailies}

\* the budget gate on the files of InitBudgets and on the hand-written ones
InitHandWritten ==
    /\ now = Now0
    /\ config = [defaultAccount |-> "default",
                 accounts |-> [n \in {"default"} |->
                     AccountOf(n, [SecondAuth EXCEPT !.type = "bearer",
                                                     !.bearerToken = "bt0"])]]
    /\ budget \in InitBudgets \cup HandWritten
    /\ usage \in {<<>>, <<UsageEntry("posts.searchAll", Midnight(Now0) - 1)>>}
    /\ InitHistory

SpecHandWritten == InitHandWritten /\ [][NextBudget]_vars

(***************************************************************************)
(* commands/budget.ts: xc budget set, reset, lock and unlock.  A command   *)
(* --daily text is <<>> when parseFloat gives NaN, <<m>> for m thousandths *)
(* of a dollar.                                                            *)
(***************************************************************************)
Passwords == {"", "pw1", "pw2"}
\* --password: a password, or Undefined when the option is not given
PasswordArgs == Passwords \cup {Undefined}
\* the values randomBytes(32).toString("hex") takes
Salts == {"salt1", "salt2"}
DailyArgs == {<<>>, <<0>>, <<15>>, <<30>>}
ActionArgs == Actions \cup {"bogus"}

\* requirePasswordIfLocked(password): the error it exits with, "none" when it returns
RequirePasswordIfLocked(b, password) ==
    IF ~IsLocked(b) THEN "none"
    ELSE IF Falsy(password) THEN "PasswordRequired"
    ELSE IF ~VerifyPassword(b, password) THEN "IncorrectPassword"
    ELSE "none"

\* what the budget commands leave alone
lockFrame == <<now, config, usage, argAccount, argEndpoint, account, callNow,
               token, refreshCalls, refreshResp, refreshResult, written, config0, usage0,
               checks, calls, answer, verdict, msg, ledgerVars, storeVars, procs, ioVars>>

\* a budget command ends: exit code 1 after an error, 0 otherwise
CommandEnds(name, password, err, out) ==
    /\ cmd' = name
    /\ argPassword' = password
    /\ budget0' = budget
    /\ error' = err
    /\ pc' = IF err = "none" THEN "done" ELSE "failed"
    /\ stderr' = IF err = "none" THEN <<>> ELSE <<err>>
    /\ stdout' = IF err = "none" THEN <<[text |-> out]>> ELSE <<>>

\* xc budget set --daily <amount> [--action <action>] [--password <pass>]
BudgetSet(daily, action, password) ==
    LET gate == RequirePasswordIfLocked(budget, password)
        err  == IF gate # "none" THEN gate
                ELSE IF daily = <<>> \/ daily[1] <= 0 THEN "InvalidDaily"
                ELSE IF action \notin Actions THEN "InvalidAction"
                ELSE "none"
        existing == LoadBudget(budget)
    IN  /\ budget' = IF err = "none"
                     THEN SaveBudget([daily        |-> daily[1],
                                      action       |-> action,
                                      passwordHash |-> existing.passwordHash,
                                      passwordSalt |-> existing.passwordSalt])
                     ELSE budget
        /\ CommandEnds("set", password, err, "Budget set")
        /\ UNCHANGED <<lockedWith, lockFrame>>

\* xc budget reset [--password <pass>]
BudgetReset(password) ==
    LET err == RequirePasswordIfLocked(budget, password)
    IN  /\ budget' = IF err = "none" THEN ResetBudget(budget) ELSE budget
        /\ lockedWith' = IF err = "none" THEN [lockedWith EXCEPT !.inForce = FALSE]
                         ELSE lockedWith
        /\ CommandEnds("reset", password, err, "Budget configuration removed.")
        /\ UNCHANGED lockFrame

\* xc budget lock --password <pass>
BudgetLock(password, salt) ==
    LET err == IF IsLocked(budget) THEN "AlreadyLocked" ELSE "none"
    IN  /\ budget' = IF err = "none" THEN LockBudget(budget, password, salt) ELSE budget
        /\ lockedWith' = IF err = "none" THEN [password |-> password, inForce |-> TRUE]
                         ELSE lockedWith
        /\ CommandEnds("lock", password, err, "Budget locked.")
        /\ UNCHANGED lockFrame

\* xc budget unlock --password <pass>
BudgetUnlock(password) ==
    LET err == IF IsLocked(budget) /\ ~VerifyPassword(budget, password)
               THEN "IncorrectPassword" ELSE "none"
    IN  /\ budget' = IF IsLocked(budget) /\ err = "none" THEN UnlockBudget(budget)
                     ELSE budget
        /\ lockedWith' = IF IsLocked(budget) /\ err = "none"
                         THEN [lockedWith EXCEPT !.inForce = FALSE] ELSE lockedWith
        /\ CommandEnds("unlock", password, err,
                       IF IsLocked(budget) THEN "Budget unlocked."
                       ELSE "Budget is not locked.")
        /\ UNCHANGED lockFrame

\* Math.max(0, config.daily - todaySpend)
Remaining(daily, todaySpend) ==
    IF DLeq(todaySpend, daily) THEN DSub(daily, todaySpend) ELSE DZero

\* xc budget show: the lines it prints, the percentage left out
ShowReport(b, lines, nowv) ==
    LET cfg        == LoadBudget(b)
        todaySpend == ComputeTodaySpend(LoadUsageLog(lines), nowv)
    IN  IF DailyUnset(cfg) THEN [text |-> "No budget configured."]
        ELSE [text      |-> "Budget:",
              daily     |-> ToFixed2(DecimalToDouble(cfg.daily)),
              spent     |-> ToFixed2(todaySpend),
              remaining |-> ToFixed2(Remaining(DecimalToDouble(cfg.daily), todaySpend)),
              action    |-> cfg.action,
              locked    |-> IsLocked(b)]

\* xc budget show
BudgetShow ==
    /\ cmd' = "show"
    /\ argPassword' = Undefined
    /\ budget0' = budget
    /\ error' = "none"
    /\ pc' = "done"
    /\ stderr' = <<>>
    /\ stdout' = <<ShowReport(budget, usage, now)>>
    /\ UNCHANGED <<budget, lockedWith, lockFrame>>

\* the budget commands: any budget file without lock, a fixed ledger
InitLock ==
    /\ now = Now0
    /\ config = [defaultAccount |-> "default",
                 accounts |-> [n \in {"default"} |-> AccountOf(n, SecondAuth)]]
    /\ budget \in {<<>>} \cup {BudgetOf(d, a) : d \in Dailies, a \in Actions}
    /\ usage = <<UsageEntry("posts.create", Now0 - 1000)>>
    /\ InitHistory

NextLock ==
    \/ \E daily \in DailyArgs, action \in ActionArgs, password \in PasswordArgs :
          BudgetSet(daily, action, password)
    \/ \E password \in PasswordArgs : BudgetReset(password)
    \/ \E password \in Passwords, salt \in Salts : BudgetLock(password, salt)
    \/ \E password \in Passwords : BudgetUnlock(password)
    \/ BudgetShow

SpecLock == InitLock /\ [][NextLock]_vars

(***************************************************************************)
(* lib/budget.ts called directly: saveBudget, loadBudget, resetBudget.     *)
(***************************************************************************)
\* the valid configurations: daily optional, a valid action, hash and salt
\* both or neither
ValidConfigs ==
    { [daily |-> d, action |-> a, passwordHash |-> hs[1], passwordSalt |-> hs[2]] :
          d \in Dailies \cup {NoDaily}, a \in Actions,
          hs \in {<<Undefined, Undefined>>}
                 \cup {<<HashPassword(p, salt), salt>> : p \in Passwords, salt \in Salts} }

\* what these calls leave alone
storeFrame == <<now, config, usage, pc, argAccount, argEndpoint, account, callNow,
                token, error, refreshCalls, refreshResp, refreshResult, written, config0, usage0,
                checks, calls, stderr, answer, verdict, budget0, stdout, msg,
                argPassword, lockedWith, ledgerVars, procs, ioVars>>

\* saveBudget(cfg)
StoreSave(cfg) ==
    /\ budget' = SaveBudget(cfg)
    /\ savedCfg' = <<cfg>>
    /\ loadedCfg' = <<>>
    /\ cmd' = "saveBudget"
    /\ UNCHANGED storeFrame

\* loadBudget()
StoreLoad ==
    /\ loadedCfg' = <<LoadBudget(budget)>>
    /\ cmd' = "loadBudget"
    /\ UNCHANGED <<budget, savedCfg, storeFrame>>

\* resetBudget()
StoreReset ==
    /\ budget' = ResetBudget(budget)
    /\ savedCfg' = <<>>
    /\ loadedCfg' = <<>>
    /\ cmd' = "resetBudget"
    /\ UNCHANGED storeFrame

InitStore ==
    /\ now = Now0
    /\ config = [defaultAccount |-> "default",
                 accounts |-> [n \in {"default"} |-> AccountOf(n, SecondAuth)]]
    /\ budget = <<>>
    /\ usage = <<>>
    /\ InitHistory

NextStore ==
    \/ \E cfg \in ValidConfigs : StoreSave(cfg)
    \/ StoreLoad
    \/ StoreReset

SpecStore == InitStore /\ [][NextStore]_vars

(***************************************************************************)
(* Two CLI processes, each running governed calls (checkBudget, the call,  *)
(* logApiCall), on the same budget.json and usage.jsonl.  A process reads  *)
(* a file in one step; appendFileSync is one write on a descriptor opened  *)
(* for appending, which the file system applies whole at the end of file.  *)
(***************************************************************************)
RaceEndpoints == {"posts.create", "users.getMe"}

\* what the processes leave alone
raceFrame == <<now, config, budget, pc, argAccount, argEndpoint, account, callNow,
               token, error, refreshCalls, refreshResp, refreshResult, written, config0, usage0,
               checks, calls, stderr, answer, verdict, gateVars, lockVars,
               ledgerVars, storeVars, ioVars>>

\* the calls checked or made and not yet logged
InFlight == Cardinality({p \in Procs : procs.pc[p] # "idle"})

\* process p: checkBudget(endpoint); under block a refused call ends the command
RaceCheck(p, endpoint) ==
    /\ procs.pc[p] = "idle"
    /\ Len(usage) + InFlight < MaxLog
    /\ procs' = [procs EXCEPT
           !.pc[p] = IF CheckBudgetSync(budget, usage, endpoint, now) = "block"
                     THEN "idle" ELSE "calling",
           !.endpoint[p] = endpoint]
    /\ UNCHANGED <<usage, raceFrame>>

\* process p: the call settles; on success logApiCall builds its entry
RaceCall(p, ok) ==
    /\ procs.pc[p] = "calling"
    /\ procs' = IF ok
                THEN [procs EXCEPT !.pc[p] = "logging", !.at[p] = now,
                         !.logged[p] = Append(@, UsageEntry(procs.endpoint[p], now))]
                ELSE [procs EXCEPT !.pc[p] = "idle"]
    /\ UNCHANGED <<usage, raceFrame>>

\* process p: appendFileSync of logApiCall
RaceAppend(p) ==
    /\ procs.pc[p] = "logging"
    /\ usage' = LogApiCall(usage, procs.endpoint[p], procs.at[p])
    /\ procs' = [procs EXCEPT !.pc[p] = "idle", !.writers = Append(@, p)]
    /\ UNCHANGED raceFrame

InitRace ==
    /\ now = Now0
    /\ config = [defaultAccount |-> "default",
                 accounts |-> [n \in {"default"} |-> AccountOf(n, SecondAuth)]]
    /\ budget \in {<<>>} \cup {BudgetOf(d, "block") : d \in Dailies}
    /\ usage = <<>>
    /\ InitHistory

NextRace ==
    \/ \E p \in Procs, endpoint \in RaceEndpoints : RaceCheck(p, endpoint)
    \/ \E p \in Procs, ok \in BOOLEAN : RaceCall(p, ok)
    \/ \E p \in Procs : RaceAppend(p)

SpecRace == InitRace /\ [][NextRace]_vars

\* two processes on one account: a credential that is due for a refresh, one
\* that becomes due after a millisecond, or one that is not due
RaceCreds ==
    { [type |-> "oauth2", accessToken |-> "at0", refreshToken |-> "rt0",
       expiresAt |-> x, bearerToken |-> Undefined, clientId |-> "cid0"] :
          x \in {Now0 - 1000, Now0 + MARGIN + 1, Now0 + 10 * MARGIN} }

RaceConfigs ==
    { [defaultAccount |-> "default",
       accounts |-> [n \in {"default"} |-> AccountOf(n, c)]] : c \in RaceCreds }

\* the account argument of the two operations
RaceNames == {Undefined, "default"}

InitAuthRace ==
    /\ now = Now0
    /\ config \in RaceConfigs
    /\ budget = BudgetOf(5, "block")
    /\ usage = <<UsageEntry("posts.create", Now0 - 1000)>>
    /\ InitHistory

NextAuthRace ==
    \/ \E name \in RaceNames, endpoint \in ApiPaths : ApiRequest(name, endpoint)
    \/ \E resp \in TokenResponses : RefreshRespond(resp)
    \/ RefreshSettle
    \/ RefreshResume
    \/ PersistTruncate
    \/ PersistWrite
    \/ IssueFetch
    \/ \E outcome \in FetchOutcomes : FetchRespond(outcome)
    \/ FetchSettle
    \/ \E name \in Names : SetDefaultAccount(name)
    \/ \E name \in RaceNames : ResolveAuthenticatedUserId(name)
    \/ OtherResolveToken
    \/ \E resp \in TokenResponses : OtherRefreshRespond(resp)
    \/ OtherRefreshSettle
    \/ OtherRefreshResume
    \/ OtherIssueFetch
    \/ \E outcome \in FetchOutcomes : OtherFetchRespond(outcome)
    \/ OtherFetchSettle
    \/ UserIdCached
    \/ OtherTruncate
    \/ OtherWrite
    \/ Tick

SpecAuthRace == InitAuthRace /\ [][NextAuthRace]_vars

(***************************************************************************)
(* The ledger functions of lib/cost.ts, called around a midnight.          *)
(***************************************************************************)
\* what the ledger functions leave alone
ledgerFrame == <<config, budget, pc, argAccount, account, token, error,
                 refreshCalls, refreshResp, refreshResult, written, config0, checks, calls,
                 stderr, answer, verdict, budget0, stdout, msg, argPassword,
                 lockedWith, storeVars, procs, ioVars>>

\* the last millisecond of the day before Now0
LedgerNow0 == Midnight(Now0) - 1
LedgerEndpoints == {"posts.searchAll", "unmapped.endpoint"}
Windows == {HOUR, DAY}

\* logApiCall(endpoint)
LedgerLog(endpoint) ==
    /\ Len(usage) < MaxLog
    /\ usage' = LogApiCall(usage, endpoint, now)
    /\ cmd' = "logApiCall"
    /\ argEndpoint' = endpoint
    /\ callNow' = now
    /\ usage0' = usage
    /\ loaded' = <<>>
    /\ spend' = DZero
    /\ window' = Today
    /\ UNCHANGED <<now, ledgerFrame>>

\* loadUsageLog()
LedgerLoad ==
    /\ loaded' = LoadUsageLog(usage)
    /\ cmd' = "loadUsageLog"
    /\ argEndpoint' = Undefined
    /\ callNow' = now
    /\ usage0' = usage
    /\ spend' = DZero
    /\ window' = Today
    /\ UNCHANGED <<now, usage, ledgerFrame>>

\* computeSpend(loadUsageLog(), windowMs)
LedgerSpend(windowMs) ==
    /\ loaded' = LoadUsageLog(usage)
    /\ spend' = ComputeSpend(LoadUsageLog(usage), windowMs, now)
    /\ window' = windowMs
    /\ cmd' = "computeSpend"
    /\ argEndpoint' = Undefined
    /\ callNow' = now
    /\ usage0' = usage
    /\ UNCHANGED <<now, usage, ledgerFrame>>

\* computeTodaySpend(loadUsageLog())
LedgerToday ==
    /\ loaded' = LoadUsageLog(usage)
    /\ spend' = ComputeTodaySpend(LoadUsageLog(usage), now)
    /\ window' = Today
    /\ cmd' = "computeTodaySpend"
    /\ argEndpoint' = Undefined
    /\ callNow' = now
    /\ usage0' = usage
    /\ UNCHANGED <<now, usage, ledgerFrame>>

\* one millisecond passes
LedgerTick ==
    /\ now < LedgerNow0 + MaxTick
    /\ now' = now + 1
    /\ UNCHANGED <<usage, argEndpoint, callNow, usage0, ledgerFrame, cmd,
                   loaded, spend, window>>

\* the ledgers on disk at the start: none, one malformed line, an entry one
\* hour old followed by a malformed line
InitLedgers ==
    {<<>>, <<Malformed>>, <<UsageEntry("unmapped.endpoint", LedgerNow0 - HOUR), Malformed>>}

InitLedger ==
    /\ now = LedgerNow0
    /\ config = [defaultAccount |-> "default",
                 accounts |-> [n \in {"default"} |-> AccountOf(n, SecondAuth)]]
    /\ budget = <<>>
    /\ usage \in InitLedgers
    /\ InitHistory

NextLedger ==
    \/ \E endpoint \in LedgerEndpoints : LedgerLog(endpoint)
    \/ LedgerLoad
    \/ \E windowMs \in Windows : LedgerSpend(windowMs)
    \/ LedgerToday
    \/ LedgerTick

SpecLedger == InitLedger /\ [][NextLedger]_vars

(***************************************************************************)
(* Properties of the credential resolver (SpecAuth).                       *)
(***************************************************************************)
\* the credential resolveToken looked up
Looked == account # <<>>
Auth == account[1].auth
\* resolveToken has returned a token to apiRequest
ResolveReturned == token # Undefined
\* the token endpoint answered ok / not ok
RefreshOk ==
    /\ refreshResp # <<>>
    /\ ~refreshResp[1].rejected /\ ~refreshResp[1].unreadable
    /\ refreshResp[1].ok /\ refreshResp[1].json
\* the token request was rejected, answered not ok, answered without JSON, or
\* its answer's body could not be read
RefreshFailed == refreshResp # <<>> /\ ~RefreshOk
\* the error refreshAccessToken throws for that
RefreshError == RefreshSettles(refreshCalls[1], refreshResp[1], now).error
\* this operation has not written the account store: setAccount has neither
\* loaded config.json for a change nor saved it
StoreNotWritten == written = <<>> /\ saving = <<>>
Refreshable == ~Falsy(Auth.refreshToken) /\ ~Falsy(Auth.clientId)

\* C1: an oauth2 credential with access token, refresh token and client ID
\* whose expiresAt - now is below 60000 ms (absent expiresAt counts as 0) makes
\* one resolveToken call refresh exactly once, with the credential's clientId and
\* refreshToken, and what resolveToken returns is the refreshed access token.
C1_RefreshesOnceNearExpiry ==
    (Looked /\ Auth.type = "oauth2" /\ ~Falsy(Auth.accessToken) /\ Refreshable
        /\ ExpiresAtOf(Auth) - callNow < MARGIN)
    => /\ Len(refreshCalls) = 1
       /\ refreshCalls[1] = [clientId |-> Auth.clientId,
                             refreshToken |-> Auth.refreshToken]
       /\ ResolveReturned => (RefreshOk /\ token = refreshResp[1].access_token)

C1_Witness ==
    /\ Looked /\ Auth.type = "oauth2" /\ ~Falsy(Auth.accessToken) /\ Refreshable
    /\ ExpiresAtOf(Auth) - callNow = MARGIN - 1
    /\ Len(refreshCalls) = 1
    /\ RefreshOk /\ token = refreshResp[1].access_token /\ token # Auth.accessToken

\* C2 as stated: an oauth2 credential with an access token and
\* expiresAt - now >= 60000 (60000 included) gets its stored access token back
\* and no refresh is invoked.
C2_Original ==
    (Looked /\ Auth.type = "oauth2" /\ ~Falsy(Auth.accessToken)
        /\ ExpiresAtOf(Auth) - callNow >= MARGIN)
    => (refreshCalls = <<>> /\ token = Auth.accessToken)

\* C2 amended: with expiresAt - now > 60000 (strictly) resolveToken returns the
\* stored access token, invokes no refresh and writes nothing.
C2_NoRefreshBeyondMargin ==
    (Looked /\ Auth.type = "oauth2" /\ ~Falsy(Auth.accessToken)
        /\ ExpiresAtOf(Auth) - callNow > MARGIN)
    => (refreshCalls = <<>> /\ token = Auth.accessToken /\ StoreNotWritten)

C2_Witness ==
    /\ Looked /\ Auth.type = "oauth2" /\ ~Falsy(Auth.accessToken) /\ Refreshable
    /\ ExpiresAtOf(Auth) - callNow = MARGIN + 1
    /\ refreshCalls = <<>> /\ token = Auth.accessToken

\* the refresh token a successful refresh has to leave in the store
ExpectedRefreshToken ==
    IF refreshResp[1].refresh_token = Undefined
    THEN Auth.refreshToken ELSE refreshResp[1].refresh_token

\* C3: when resolveToken(accountName?) returns from a successful refresh,
\* getAccount with the same argument yields the refreshed credential (new access
\* token, refresh token and a fresh expiry), whatever defaultAccount is (as long
\* as no other operation has changed it since the call).
C3_RefreshedCredentialIsReadBack ==
    [][(pc = "persistTruncated" /\ pc' = "resolved" /\ configFile' = "whole"
          /\ config'.defaultAccount = config0.defaultAccount)
       => LET g == GetAccount(config', argAccount)
          IN  /\ g.found
              /\ g.account[1].auth.accessToken = token'
              /\ g.account[1].auth.refreshToken = ExpectedRefreshToken
              /\ ~NeedsRefresh(g.account[1].auth, now)]_vars

\* C4: the credential resolveToken persists keeps the stored refresh token when
\* the refresh response carries none, and takes the response's otherwise.
C4_PersistedRefreshToken ==
    (RefreshOk /\ written # <<>>)
    => /\ written[1] \in DOMAIN saving[1].accounts
       /\ saving[1].accounts[written[1]].auth.refreshToken = ExpectedRefreshToken

C4_Witness ==
    /\ RefreshOk /\ written # <<>>
    /\ refreshResp[1].refresh_token = Undefined
    /\ saving[1].accounts[written[1]].auth.refreshToken = "rt0"
    /\ saving[1].accounts[written[1]].auth.accessToken = "at1"
    /\ configFile = "whole" /\ config = saving[1]

\* C5: a failed refresh makes resolveToken fail with the refresh error, after a
\* single refresh attempt, with the account store exactly as it was.
C5_RefreshFailurePropagates ==
    RefreshFailed
    => /\ \/ pc \in {"refreshBody", "refreshed"}
          \/ pc = "failed" /\ error = RefreshError
       /\ token = Undefined
       /\ Len(refreshCalls) = 1 /\ Len(refreshResp) = 1
       /\ StoreNotWritten
       /\ calls = <<>>

C5_Witness ==
    /\ RefreshFailed /\ pc = "failed" /\ error = "TokenRefreshFailed"
    /\ StoreNotWritten /\ now > callNow
    /\ configFile = "whole" /\ config.accounts = config0.accounts

\* C6: an oauth2 credential with an access token, within the margin of expiry
\* or past it, without refresh token or without client ID fails with the
\* no-refresh-path error; no refresh is invoked, the store is not written.
C6_NoRefreshPath ==
    (Looked /\ Auth.type = "oauth2" /\ ~Falsy(Auth.accessToken)
        /\ ExpiresAtOf(Auth) - callNow <= MARGIN /\ ~Refreshable)
    => /\ pc = "failed" /\ error = "NoRefreshPath"
       /\ refreshCalls = <<>> /\ StoreNotWritten

C6_Witness ==
    /\ Looked /\ Auth.type = "oauth2" /\ ~Falsy(Auth.accessToken)
    /\ ExpiresAtOf(Auth) - callNow < MARGIN
    /\ ~Falsy(Auth.refreshToken) /\ Falsy(Auth.clientId)
    /\ pc = "failed" /\ error = "NoRefreshPath"

\* C7: an oauth2 credential without access token fails with the
\* missing-access-token error whatever its expiry, refresh token and client ID
\* are; no refresh is invoked and the store is not written.
C7_MissingAccessTokenFirst ==
    (Looked /\ Auth.type = "oauth2" /\ Falsy(Auth.accessToken))
    => /\ pc = "failed" /\ error = "MissingAccessToken"
       /\ refreshCalls = <<>> /\ StoreNotWritten

C7_Witness ==
    /\ Looked /\ Auth.type = "oauth2" /\ Falsy(Auth.accessToken) /\ Refreshable
    /\ ExpiresAtOf(Auth) - callNow < MARGIN
    /\ pc = "failed" /\ error = "MissingAccessToken"

\* C8: a bearer credential with a non-empty bearerToken yields that token at
\* every time, with no refresh and no write of the store, whatever expiresAt and
\* refreshToken it carries; an empty or absent bearerToken fails with the
\* empty-bearer-token error.
C8_BearerVerbatim ==
    (Looked /\ Auth.type = "bearer")
    => /\ refreshCalls = <<>> /\ StoreNotWritten
       /\ IF Falsy(Auth.bearerToken)
          THEN pc = "failed" /\ error = "EmptyBearerToken" /\ token = Undefined
          ELSE token = Auth.bearerToken

C8_Witness ==
    /\ Looked /\ Auth.type = "bearer" /\ token = "bt0"
    /\ Auth.expiresAt = 0 /\ Auth.refreshToken = "rt0" /\ Auth.clientId = "cid0"
    /\ callNow > Now0

(***************************************************************************)
(* Properties of the budget gate and of the order of a call.               *)
(***************************************************************************)
\* C9: every outbound API call was preceded by the budget check of its
\* endpoint, a call that completed successfully left exactly one new ledger
\* entry for that endpoint, and a failed budget check left no call and no entry.
C9_CheckCallLog ==
    /\ calls # <<>> => (checks = <<argEndpoint>> /\ verdict # "none")
    /\ pc = "done" => (Len(usage) = Len(usage0) + 1
                       /\ usage[Len(usage)].endpoint = argEndpoint)
    /\ (pc = "failed" /\ error \in {"BudgetExceeded", "CancelledByUser"})
          => (calls = <<>> /\ usage = usage0)

\* the exact decimal sum, in thousandths of a dollar, of the entries of today
RECURSIVE ExactSince(_, _, _)
ExactSince(entries, cutoff, i) ==
    IF i > Len(entries) THEN 0
    ELSE (IF entries[i].timestamp >= cutoff THEN entries[i].estimatedCost ELSE 0)
         + ExactSince(entries, cutoff, i + 1)

ExactTodaySpend(lines, nowv) == ExactSince(LoadUsageLog(lines), Midnight(nowv), 1)

\* C10: with daily set, checkBudget(endpoint) succeeds without warning or
\* prompt exactly when today's spend plus the call's cost is at most daily,
\* equality included, whatever the action is.
C10_PassesIffWithinDaily ==
    (verdict # "none" /\ LoadBudget(budget).daily # NoDaily)
    => (verdict = "pass"
          <=> ExactTodaySpend(usage0, callNow) + CostMilli(argEndpoint)
                 <= LoadBudget(budget).daily)

\* checkBudget has run in this operation, on the budget cfg
GateRan == verdict # "none"
GateCfg == LoadBudget(budget0)
\* today's spend plus the call's cost is above daily, in exact decimals
ExactOver ==
    /\ GateCfg.daily # NoDaily
    /\ ExactTodaySpend(usage0, callNow) + CostMilli(argEndpoint) > GateCfg.daily
\* a two-decimal text is the amount of milli thousandths, rounded to the cent
ShowsAmount(cents, milli) == 10 * cents - milli \in -5..5

\* C11: with action block and today's spend plus the call's cost above daily,
\* checkBudget fails with the budget-exceeded error, its message shows the
\* daily limit, today's spend and the call's cost to the cent, no call is
\* made, and budget.json and the ledger are what they were.
C11_BlockFailsWithAmounts ==
    (GateRan /\ GateCfg.action = "block" /\ ExactOver)
    => /\ verdict = "block" /\ pc = "failed" /\ error = "BudgetExceeded"
       /\ Len(msg) = 1
       /\ ShowsAmount(msg[1].daily, GateCfg.daily)
       /\ ShowsAmount(msg[1].today, ExactTodaySpend(usage0, callNow))
       /\ ShowsAmount(msg[1].cost, CostMilli(argEndpoint))
       /\ calls = <<>> /\ stderr = <<>> /\ answer = <<>>
       /\ budget = budget0 /\ usage = usage0

C11_Witness ==
    /\ GateRan /\ GateCfg.action = "block" /\ ExactOver
    /\ error = "BudgetExceeded" /\ usage0 # <<>>
    /\ msg[1].today >= 1 /\ msg[1].cost >= 1

\* C12: with action warn and today's spend plus the call's cost above daily,
\* checkBudget writes one warning to stderr, nothing to stdout, asks nothing
\* and the call is made; an over-budget call that is made without an answer
\* from the user was made under warn.
C12_WarnProceeds ==
    /\ (GateRan /\ GateCfg.action = "warn" /\ ExactOver)
       => /\ verdict = "warn"
          /\ stderr = <<"Warning: Daily budget exceeded">>
          /\ stdout = <<>> /\ answer = <<>>
          /\ calls = <<argEndpoint>>
          /\ error \notin {"BudgetExceeded", "CancelledByUser"}
    /\ (GateRan /\ ExactOver /\ calls # <<>> /\ answer = <<>>)
       => GateCfg.action = "warn"

C12_Witness ==
    /\ GateRan /\ GateCfg.action = "warn" /\ ExactOver
    /\ Len(stderr) = 1 /\ pc = "done" /\ Len(usage) = Len(usage0) + 1

\* C13: with action confirm and today's spend plus the call's cost above
\* daily, checkBudget prompts once; the call is made only after the answer y
\* or Y, and any other answer fails with the cancelled-by-user error.
C13_ConfirmOnlyOnY ==
    (GateRan /\ GateCfg.action = "confirm" /\ ExactOver)
    => /\ verdict = "prompt"
       /\ stderr = <<"Daily budget exceeded. Continue? [y/N] ">>
       /\ Len(answer) <= 1
       /\ answer = <<>> => (pc = "awaitConfirm" /\ calls = <<>>)
       /\ answer # <<>> =>
              IF answer[1] \in {"y", "Y"}
              THEN calls = <<argEndpoint>> /\ error # "CancelledByUser"
              ELSE pc = "failed" /\ error = "CancelledByUser" /\ calls = <<>>
                   /\ usage = usage0

C13_Witness ==
    /\ GateRan /\ GateCfg.action = "confirm" /\ ExactOver
    /\ answer = <<" y">> /\ error = "CancelledByUser"

\* C14: when budget.json has no daily (or does not exist), checkBudget
\* succeeds at once for every endpoint, action and ledger: no warning, no
\* prompt, no error, and the call is made.
C14_NoDailyNoGate ==
    (GateRan /\ GateCfg.daily = NoDaily)
    => /\ verdict = "pass" /\ msg = <<>>
       /\ stderr = <<>> /\ stdout = <<>> /\ answer = <<>>
       /\ calls = <<argEndpoint>>
       /\ error \notin {"BudgetExceeded", "CancelledByUser"}

C14_Witness ==
    /\ GateRan /\ budget0 = BudgetOf(NoDaily, "block")
    /\ Len(usage0) = 2 /\ pc = "awaitCall" /\ argEndpoint = "posts.searchAll"

(***************************************************************************)
(* Properties of the usage ledger (SpecLedger).                            *)
(***************************************************************************)
\* the exact decimal sum, in thousandths of a dollar, of a sequence of entries
RECURSIVE ExactSum(_)
ExactSum(entries) ==
    IF entries = <<>> THEN 0
    ELSE Head(entries).estimatedCost + ExactSum(Tail(entries))
\* a double is the amount of milli thousandths, to the thousandth
IsAmount(d, milli) == ScaleRound(d, 1000) = milli

\* C15: computeTodaySpend sums the entries of the calendar day of the call
\* and of later days, and no other: an entry of the last millisecond of the
\* day before is left out, an entry of the first millisecond is counted.
C15_TodayFromMidnight ==
    cmd = "computeTodaySpend"
    => IsAmount(spend, ExactSum(SelectSeq(loaded,
                   LAMBDA e : e.timestamp \div DAY >= callNow \div DAY)))

C15_Witness ==
    /\ cmd = "computeTodaySpend" /\ callNow % DAY = 1
    /\ \E i, j \in 1..Len(loaded) :
          /\ loaded[i].timestamp = callNow - 2 /\ loaded[i].estimatedCost = 20
          /\ loaded[j].timestamp = callNow - 1 /\ loaded[j].estimatedCost = 5
    /\ IsAmount(spend, 5)

\* C16 as stated: computeSpend sums exactly the entries younger than
\* windowMs, an entry whose age equals windowMs left out.
C16_Original ==
    cmd = "computeSpend"
    => IsAmount(spend, ExactSum(SelectSeq(loaded,
                   LAMBDA e : callNow - e.timestamp < window)))

\* C16: computeSpend sums exactly the entries whose age is at most windowMs,
\* an entry whose age equals windowMs counted, and is 0 for no entries.
C16_SpendWithinWindow ==
    cmd = "computeSpend"
    => /\ IsAmount(spend, ExactSum(SelectSeq(loaded,
                   LAMBDA e : callNow - e.timestamp <= window)))
       /\ loaded = <<>> => spend = DZero

C16_Witness ==
    /\ cmd = "computeSpend" /\ Len(loaded) = 2
    /\ callNow - loaded[1].timestamp = window
    /\ loaded[2].estimatedCost = 20
    /\ IsAmount(spend, 25)

\* C17: logApiCall(endpoint) adds one line at the end of the ledger, with the
\* endpoint given and the cost estimateCost gives it; what loadUsageLog
\* returns afterwards is what it returned before, followed by that entry.
C17_AppendOnly ==
    cmd = "logApiCall"
    => LET before == LoadUsageLog(usage0)
           after  == LoadUsageLog(usage)
       IN  /\ Len(usage) = Len(usage0) + 1
           /\ SubSeq(usage, 1, Len(usage0)) = usage0
           /\ Len(after) = Len(before) + 1
           /\ SubSeq(after, 1, Len(before)) = before
           /\ after[Len(after)].endpoint = argEndpoint
           /\ after[Len(after)].estimatedCost = CostMilli(argEndpoint)
           /\ after[Len(after)].timestamp = callNow

C17_Witness ==
    /\ cmd = "logApiCall" /\ Len(usage) = 3 /\ Len(LoadUsageLog(usage)) = 3
    /\ usage[1].endpoint = "posts.searchAll" /\ usage[2].endpoint = "unmapped.endpoint"
    /\ usage[3].endpoint = "posts.searchAll"

\* the index in lines of the k-th line that parses
NthValid(lines, k) ==
    CHOOSE i \in 1..Len(lines) :
        lines[i].json /\ Cardinality({j \in 1..i : lines[j].json}) = k

\* C18: loadUsageLog returns the lines that parse, each one, in file order,
\* and skips the others; no file or an empty file gives the empty sequence.
C18_SkipsMalformed ==
    cmd = "loadUsageLog"
    => /\ error = "none"
       /\ Len(loaded) = Cardinality({i \in 1..Len(usage0) : usage0[i].json})
       /\ \A k \in 1..Len(loaded) : loaded[k] = usage0[NthValid(usage0, k)]
       /\ usage0 = <<>> => loaded = <<>>

C18_Witness ==
    /\ cmd = "loadUsageLog" /\ Len(usage0) = 3
    /\ usage0[1].json /\ ~usage0[2].json /\ usage0[3].json
    /\ loaded = <<usage0[1], usage0[3]>>

(***************************************************************************)
(* Properties of the budget lock (SpecLock).                               *)
(***************************************************************************)
\* the command that ran was refused by the lock
Refused == error \in {"PasswordRequired", "IncorrectPassword"}

\* C19: on a locked budget, budget set and budget reset without a password
\* fail with the password-required error, with a wrong password they fail
\* with the incorrect-password error, and in both cases budget.json is as it
\* was; with the password of the lock they are not refused.
C19_LockGuardsSetAndReset ==
    (cmd \in {"set", "reset"} /\ IsLocked(budget0))
    => IF argPassword = Undefined
       THEN error = "PasswordRequired" /\ budget = budget0
       ELSE IF argPassword # lockedWith.password
       THEN Refused /\ budget = budget0
            /\ argPassword # "" => error = "IncorrectPassword"
       ELSE ~Refused /\ (cmd = "reset" => budget = <<>>)

\* C20: verifyPassword(q) is true for every q while no lock is in force;
\* once lockBudget(p) has run it is true for q = p and false for any other
\* q, until unlockBudget or resetBudget, after which it is true for every q.
C20_VerifyPassword ==
    \A q \in Passwords :
        VerifyPassword(budget, q) <=> (~lockedWith.inForce \/ q = lockedWith.password)

C20_Witness ==
    /\ cmd = "unlock" /\ error = "IncorrectPassword" /\ argPassword = "pw2"
    /\ lockedWith = [password |-> "pw1", inForce |-> TRUE]
    /\ VerifyPassword(budget, "pw1") /\ ~VerifyPassword(budget, "pw2")
    /\ ~VerifyPassword(budget, "")

\* the keys of the stored budget configuration (none without a file)
StoredKeys(b) == IF b = <<>> THEN {} ELSE DOMAIN b[1]
\* the stored hash and salt
Pair(b) == <<LoadBudget(b).passwordHash, LoadBudget(b).passwordSalt>>

\* C21: after any sequence of budget set, lock, unlock and reset, the stored
\* configuration has passwordHash and passwordSalt both or neither, and
\* isLocked() is true exactly when it has both.
C21_HashAndSaltTogether ==
    /\ "passwordHash" \in StoredKeys(budget) <=> "passwordSalt" \in StoredKeys(budget)
    /\ IsLocked(budget) <=> {"passwordHash", "passwordSalt"} \subseteq StoredKeys(budget)

C21_Witness ==
    /\ cmd = "set" /\ error = "none" /\ budget # budget0
    /\ {"passwordHash", "passwordSalt"} \subseteq StoredKeys(budget)
    /\ IsLocked(budget)

\* C22: budget lock and budget unlock that succeed leave daily and action of
\* the stored configuration as they were.
C22_LockKeepsDailyAndAction ==
    (cmd \in {"lock", "unlock"} /\ error = "none")
    => /\ LoadBudget(budget).daily = LoadBudget(budget0).daily
       /\ LoadBudget(budget).action = LoadBudget(budget0).action
       /\ cmd = "lock" => IsLocked(budget)
       /\ cmd = "unlock" => ~IsLocked(budget)

C22_Witness ==
    /\ cmd = "unlock" /\ error = "none" /\ IsLocked(budget0) /\ ~IsLocked(budget)
    /\ LoadBudget(budget).daily = 30 /\ LoadBudget(budget).action = "block"

\* C23: a budget reset that is not refused leaves no budget file, so that
\* loadBudget gives the default {action: warn} without daily and without
\* lock; the ledger is what it was; without a budget file it succeeds and
\* changes nothing.
C23_ResetRemovesOnlyBudget ==
    /\ (cmd = "reset" /\ error = "none")
       => /\ LoadBudget(budget) = [daily |-> NoDaily, action |-> "warn",
                                   passwordHash |-> Undefined,
                                   passwordSalt |-> Undefined]
          /\ ~IsLocked(budget) /\ StoredKeys(budget) = {}
          /\ usage = usage0
    /\ (cmd = "reset" /\ budget0 = <<>>) => (error = "none" /\ budget = <<>>)

C23_Witness ==
    /\ cmd = "reset" /\ error = "none" /\ IsLocked(budget0)
    /\ LoadBudget(budget0).daily = 15 /\ budget = <<>> /\ Len(usage) = 1

\* C28: a command run on a locked budget changes the stored hash and salt
\* only if it is an unlock or a reset given the password of the lock; set
\* with that password keeps them, lock fails, unlock with another password
\* fails and show changes nothing.
C28_LockOnlyLiftedWithPassword ==
    IsLocked(budget0)
    => /\ Pair(budget) # Pair(budget0)
          => (cmd \in {"unlock", "reset"} /\ error = "none"
              /\ argPassword = lockedWith.password)
       /\ cmd = "set" /\ error = "none" => Pair(budget) = Pair(budget0)
       /\ cmd = "lock" => (error = "AlreadyLocked" /\ budget = budget0)
       /\ (cmd = "unlock" /\ argPassword # lockedWith.password)
          => (error = "IncorrectPassword" /\ budget = budget0)
       /\ cmd = "show" => (error = "none" /\ budget = budget0)

C28_Witness ==
    /\ IsLocked(budget0) /\ cmd = "set" /\ error = "none" /\ argPassword = "pw1"
    /\ budget # budget0 /\ Pair(budget) = Pair(budget0)

(***************************************************************************)
(* Properties of the budget store (SpecStore).                             *)
(***************************************************************************)
\* C24: loadBudget() after saveBudget(cfg), cfg valid, returns a
\* configuration with the daily, action, passwordHash and passwordSalt of
\* cfg, an absent field being absent again.
C24_SaveLoadRoundTrip ==
    (cmd = "loadBudget" /\ savedCfg # <<>>)
    => /\ loadedCfg[1].daily = savedCfg[1].daily
       /\ loadedCfg[1].action = savedCfg[1].action
       /\ loadedCfg[1].passwordHash = savedCfg[1].passwordHash
       /\ loadedCfg[1].passwordSalt = savedCfg[1].passwordSalt
       /\ DOMAIN loadedCfg[1] = DOMAIN savedCfg[1]

C24_Witness ==
    /\ cmd = "loadBudget" /\ savedCfg # <<>>
    /\ savedCfg[1].daily = NoDaily /\ savedCfg[1].action = "confirm"
    /\ savedCfg[1].passwordSalt = "salt2"
    /\ loadedCfg = savedCfg
    /\ StoredKeys(budget) = {"action", "passwordHash", "passwordSalt"}

(***************************************************************************)
(* The budget gate on a hand-written budget.json (SpecHandWritten).        *)
(***************************************************************************)
\* C27: with daily set and no action field in budget.json, a call whose cost
\* added to today's spend is above daily gets the warning on stderr and is
\* made, as under warn.
C27_AbsentActionWarns ==
    (GateRan /\ budget0 # <<>> /\ "action" \notin StoredKeys(budget0) /\ ExactOver)
    => /\ verdict = "warn"
       /\ stderr = <<"Warning: Daily budget exceeded">>
       /\ calls = <<argEndpoint>>

(***************************************************************************)
(* The ledger under the block policy (SpecBudget).                         *)
(***************************************************************************)
\* C29: with action block and daily set, governed calls run one at a time
\* within one day never bring the sum of today's ledger entries above daily.
C29_BlockBoundsTodaySpend ==
    (LoadBudget(budget).action = "block" /\ LoadBudget(budget).daily # NoDaily)
    => ExactTodaySpend(usage, now) <= LoadBudget(budget).daily

C29_Witness ==
    /\ LoadBudget(budget).action = "block" /\ LoadBudget(budget).daily = 15
    /\ Len(usage) = 2 /\ ExactTodaySpend(usage, now) = 15
    /\ pc = "failed" /\ error = "BudgetExceeded" /\ argEndpoint = "users.getMe"

(***************************************************************************)
(* Two processes on the same ledger (SpecRace).                            *)
(***************************************************************************)
\* the ledger lines process p wrote, in file order
WrittenBy(p) ==
    LET idx == SelectSeq([i \in 1..Len(procs.writers) |-> i],
                         LAMBDA i : procs.writers[i] = p)
    IN  [k \in 1..Len(idx) |-> usage[idx[k]]]
\* the entries process p has passed to appendFileSync, in the order of its calls
Appended(p) ==
    IF procs.pc[p] = "logging"
    THEN SubSeq(procs.logged[p], 1, Len(procs.logged[p]) - 1)
    ELSE procs.logged[p]

\* C25: whatever the interleaving of two processes that log calls, every
\* entry appended is a line of its own in the ledger, loadUsageLog returns
\* them all, and those of one process are in the order it appended them.
C25_ConcurrentAppendsKept ==
    /\ Len(usage) = Len(procs.writers)
    /\ LoadUsageLog(usage) = usage
    /\ \A p \in Procs : WrittenBy(p) = Appended(p)

C25_Witness ==
    /\ procs.writers = <<2, 1, 2>>
    /\ Len(procs.logged[2]) = 2 /\ Len(LoadUsageLog(usage)) = 3
    /\ usage[1].endpoint = "users.getMe" /\ usage[3].endpoint = "posts.create"

\* C30: with action block and daily set, two processes running governed
\* calls side by side never bring the sum of today's ledger entries above
\* daily.
C30_BlockBoundsTodaySpendOfTwo ==
    \A d \in Dailies :
        budget = BudgetOf(d, "block") => ExactTodaySpend(usage, now) <= d


\* the fields of an account record other than accessToken, refreshToken and
\* expiresAt
OtherFields(acct) ==
    [type |-> acct.auth.type, clientId |-> acct.auth.clientId,
     bearerToken |-> acct.auth.bearerToken, name |-> acct.name,
     userId |-> acct.userId, username |-> acct.username]

\* the persist step of a refresh: setAccount is called with the name under
\* which the refreshed account is stored, loads config.json and puts the
\* record it was given into what it is about to save
PersistStep ==
    /\ pc = "refreshed"
    /\ pc' = "persistLoaded"
    /\ WriteName(argAccount) = account[1].name
    /\ account[1].name \in DOMAIN config.accounts

\* C26: the persist step of a refresh leaves every field of the stored account
\* other than accessToken, refreshToken and expiresAt at the value it had in
\* the store immediately before the write (what setAccount has just loaded),
\* also when another operation wrote it while the refresh was in flight.
C26_PersistKeepsOtherFields ==
    [][PersistStep =>
          LET n == account[1].name
          IN  OtherFields(saving'[1].accounts[n]) = OtherFields(config.accounts[n])]_vars

====
